---- MODULE Spec2Model ----
(***************************************************************************)
(* A model of the task reconciliation code of kops:                        *)
(*   - the AutoscalingGroup task (awstasks) against an AWS API target,     *)
(*   - the ProjectIAMBinding task (gcetasks) against a GCE API target,     *)
(*   - the executor that drives a graph of tasks (modelled from the        *)
(*     specification: its code is not among the source files).             *)
(*                                                                         *)
(* Conventions.  A Go pointer or optional value is a sequence of length    *)
(* at most one: Unset (nil) is <<>>, a set value v is <<v>>.  A Go slice   *)
(* is a sequence, a Go map a function.  Names that the code only compares  *)
(* and sorts (metric names, subnet ids, target group ARNs, load balancer   *)
(* names, process names) are natural numbers ordered as the strings are.   *)
(* A tag key is the pair <<prefix, rest>> of the string prefix ++ rest.    *)
(***************************************************************************)
EXTENDS Integers, Sequences, FiniteSets, TLC

-----------------------------------------------------------------------------
(* Optional values and small helpers *)

Unset == <<>>

Some(v) == <<v>>

IsSet(o) == o # <<>>

\* fi.ValueOf: the pointed-to value, or the zero value of the type for nil
ValueOf(o, zero) == IF o = <<>> THEN zero ELSE o[1]

Range(s) == {s[i] : i \in 1..Len(s)}

RECURSIVE SeqOfSet(_)
SeqOfSet(S) ==
    IF S = {} THEN <<>>
    ELSE LET x == CHOOSE y \in S : \A z \in S : y <= z
         IN <<x>> \o SeqOfSet(S \ {x})

RECURSIVE Insert(_, _)
Insert(x, s) ==
    IF s = <<>> THEN <<x>>
    ELSE IF x <= Head(s) THEN <<x>> \o s
    ELSE <<Head(s)>> \o Insert(x, Tail(s))

\* sort.Strings / sort.Stable(OrderXByName): ascending order, duplicates kept
RECURSIVE SortStrings(_)
SortStrings(s) == IF s = <<>> THEN <<>> ELSE Insert(Head(s), SortStrings(Tail(s)))

RECURSIVE Count(_, _)
Count(x, s) ==
    IF s = <<>> THEN 0
    ELSE (IF Head(s) = x THEN 1 ELSE 0) + Count(x, Tail(s))

RECURSIVE FilterOut(_, _)
\* the elements of s, in order, that are not in the set S
FilterOut(s, S) ==
    IF s = <<>> THEN <<>>
    ELSE (IF Head(s) \in S THEN <<>> ELSE <<Head(s)>>) \o FilterOut(Tail(s), S)

\* the empty Go map
EmptyMap == <<>>

MapMerge(f, g) ==
    [k \in (DOMAIN f) \cup (DOMAIN g) |-> IF k \in DOMAIN g THEN g[k] ELSE f[k]]

MapRemove(f, K) == [k \in (DOMAIN f) \ K |-> f[k]]

-----------------------------------------------------------------------------
(* strings.Join(list, ",") and strings.Split(s, ","): a joined string is   *)
(* the sequence of its ids with Comma between them; the empty string is    *)
(* <<>>, and the id EmptyID stands for the empty string as an id.          *)

Comma == -1

EmptyID == 0

RECURSIVE Join(_)
Join(l) ==
    IF l = <<>> THEN <<>>
    ELSE IF Len(l) = 1 THEN (IF l[1] = EmptyID THEN <<>> ELSE <<l[1]>>)
    ELSE (IF l[1] = EmptyID THEN <<>> ELSE <<l[1]>>) \o <<Comma>> \o Join(Tail(l))

RECURSIVE SplitFrom(_, _)
\* Split of the rest s of a string, cur being the piece read so far
SplitFrom(s, cur) ==
    IF s = <<>> THEN <<cur>>
    ELSE IF Head(s) = Comma THEN <<cur>> \o SplitFrom(Tail(s), EmptyID)
    ELSE SplitFrom(Tail(s), Head(s))

\* strings.Split(s, ","): Split("") is the one-element list [""]
Split(s) == SplitFrom(s, EmptyID)

-----------------------------------------------------------------------------
(* The AutoscalingGroup task.  The record keeps the fields of the struct   *)
(* that Find, the differ and RenderAWS treat differently; MaxSize,         *)
(* InstanceProtection and the other Mixed* fields follow the code shape of *)
(* MinSize and MixedOnDemandBase and are represented by them.  Load        *)
(* balancers are external ones (Shared, LoadBalancerName = Name), so the    *)
(* API ELB lookup of Find does not apply.                                  *)

ASGFields ==
    {"Name", "MinSize", "MaxInstanceLifetime", "Metrics", "Granularity",
     "Subnets", "Tags", "TargetGroups", "LoadBalancers", "SuspendProcesses",
     "CapacityRebalance", "LaunchTemplate", "MixedOnDemandAllocationStrategy",
     "MixedOnDemandBase", "MixedSpotMaxPrice"}

\* &AutoscalingGroup{}: every field nil
EmptyASG ==
    [Name |-> Unset, MinSize |-> Unset, MaxInstanceLifetime |-> Unset,
     Metrics |-> <<>>, Granularity |-> Unset, Subnets |-> <<>>,
     Tags |-> EmptyMap, TargetGroups |-> <<>>, LoadBalancers |-> <<>>,
     SuspendProcesses |-> Unset, CapacityRebalance |-> Unset,
     LaunchTemplate |-> Unset, MixedOnDemandAllocationStrategy |-> Unset,
     MixedOnDemandBase |-> Unset, MixedSpotMaxPrice |-> Unset]

\* The references an AutoscalingGroup holds to other tasks: a task is
\* identified by its kind and its id
TaskRefs(kind, ids) == [i \in 1..Len(ids) |-> <<kind, ids[i]>>]

\* GetDependencies without the loop over e.Subnets
GetDependenciesWithoutSubnets(e) ==
    TaskRefs("LoadBalancer", e.LoadBalancers)
    \o TaskRefs("TargetGroup", e.TargetGroups)
    \o TaskRefs("LaunchTemplate", e.LaunchTemplate)

\* GetDependencies without the launch template
GetDependenciesWithoutLaunchTemplate(e) ==
    TaskRefs("LoadBalancer", e.LoadBalancers)
    \o TaskRefs("TargetGroup", e.TargetGroups)
    \o TaskRefs("Subnet", e.Subnets)

\* AutoscalingGroup.GetDependencies: the load balancers, the target groups,
\* the subnets, and the launch template when there is one
GetDependencies(e) ==
    TaskRefs("LoadBalancer", e.LoadBalancers)
    \o TaskRefs("TargetGroup", e.TargetGroups)
    \o TaskRefs("Subnet", e.Subnets)
    \o (IF e.LaunchTemplate # Unset
        THEN <<<<"LaunchTemplate", e.LaunchTemplate[1]>>>> ELSE <<>>)

CloudTagInstanceGroupRolePrefix == "k8s.io/role/"

CloudFormationPrefix == "aws:cloudformation:"

HasPrefix(k, p) == k[1] = p

\* The groups one DescribeAutoScalingGroups call lists, page by page
NoPages == <<>>

\* A lookup that also returns the groups that are being deleted
FoundGroupsOfAnyStatus(pages, name) ==
    LET RECURSIVE Flat(_)
        Flat(ps) == IF ps = <<>> THEN <<>> ELSE Head(ps) \o Flat(Tail(ps))
    IN SelectSeq(Flat(pages), LAMBDA g : g.AutoScalingGroupName = name)

\* findAutoscalingGroup: desc is the paginator's outcome [err, pages]
FoundGroups(pages, name) ==
    LET all == IF pages = <<>> THEN <<>>
               ELSE LET RECURSIVE Flat(_)
                        Flat(ps) == IF ps = <<>> THEN <<>>
                                    ELSE Head(ps) \o Flat(Tail(ps))
                    IN Flat(pages)
    IN SelectSeq(all, LAMBDA g : g.Status = Unset /\ g.AutoScalingGroupName = name)

\* A lookup that settles for the first group found when there are several
findFirstAutoscalingGroup(desc, name) ==
    IF desc.err THEN [g |-> Unset, err |-> TRUE, multiple |-> FALSE]
    ELSE LET found == FoundGroups(desc.pages, name)
         IN IF Len(found) = 0 THEN [g |-> Unset, err |-> FALSE, multiple |-> FALSE]
            ELSE [g |-> Some(found[1]), err |-> FALSE, multiple |-> FALSE]

findAutoscalingGroup(desc, name) ==
    IF desc.err THEN [g |-> Unset, err |-> TRUE, multiple |-> FALSE]
    ELSE LET found == FoundGroups(desc.pages, name)
         IN IF Len(found) = 0 THEN [g |-> Unset, err |-> FALSE, multiple |-> FALSE]
            ELSE IF Len(found) = 1
                 THEN [g |-> Some(found[1]), err |-> FALSE, multiple |-> FALSE]
            ELSE [g |-> Unset, err |-> TRUE, multiple |-> TRUE]

\* subnetSlicesEqualIgnoreOrder: the same ids with the same multiplicities
subnetSlicesEqualIgnoreOrder(l, r) ==
    /\ Len(l) = Len(r)
    /\ \A x \in Range(l) \cup Range(r) : Count(x, l) = Count(x, r)

\* A Find for which every attached target group is stale
AttachedTargetGroups(e, g) == g.TargetGroupARNs

\* The target group ARNs Find reports as stale: attached, not desired
StaleTargetGroups(e, g) == FilterOut(g.TargetGroupARNs, Range(e.TargetGroups))

\* buildDeleteAutoscalingTargetGroupAttachment
buildDeleteAutoscalingTargetGroupAttachment(name, arn) ==
    [autoScalingGroupName |-> name, targetGroupARN |-> arn]

\* A deletion that does not ask to be deferred
DeferDeletionNever(d) == FALSE

\* deleteAutoscalingTargetGroupAttachment.DeferDeletion
DeferDeletion(d) == TRUE

\* The actual.CapacityRebalance Find reports: the field is never assigned
FindCapacityRebalance(g) == Unset

\* The actual.MaxInstanceLifetime Find reports: 0 when the API returns nil
FindMaxInstanceLifetime(g) ==
    IF g.MaxInstanceLifetime = Unset THEN Some(0) ELSE g.MaxInstanceLifetime

\* The actual.Subnets Find reports
FindSubnets(e, g) ==
    LET listed == IF g.VPCZoneIdentifier # Unset
                  THEN Split(g.VPCZoneIdentifier[1]) ELSE <<>>
    IN IF subnetSlicesEqualIgnoreOrder(listed, e.Subnets) THEN e.Subnets ELSE listed

\* The actual.Metrics Find reports
FindMetrics(g) ==
    SortStrings([i \in 1..Len(g.EnabledMetrics) |-> g.EnabledMetrics[i].Metric])

\* The actual.Tags Find reports
FindTags(g) ==
    MapRemove(g.Tags, {k \in DOMAIN g.Tags : HasPrefix(k, CloudFormationPrefix)})

\* The snapshot Find builds of an existing group g for the task e
ActualOf(e, g) ==
    LET mp == g.MixedInstancesPolicy
        dist == IF mp # Unset THEN mp[1].InstancesDistribution ELSE Unset
    IN [Name |-> Some(g.AutoScalingGroupName),
        MinSize |-> g.MinSize,
        MaxInstanceLifetime |-> FindMaxInstanceLifetime(g),
        LoadBalancers |-> SortStrings(g.LoadBalancerNames),
        TargetGroups |-> SortStrings(g.TargetGroupARNs),
        Subnets |-> FindSubnets(e, g),
        Metrics |-> FindMetrics(g),
        Granularity |-> IF g.EnabledMetrics = <<>> THEN Unset
                        ELSE g.EnabledMetrics[Len(g.EnabledMetrics)].Granularity,
        Tags |-> FindTags(g),
        LaunchTemplate |-> IF mp # Unset /\ mp[1].LaunchTemplate # Unset
                           THEN mp[1].LaunchTemplate ELSE g.LaunchTemplate,
        MixedOnDemandAllocationStrategy |->
            IF dist # Unset THEN dist[1].OnDemandAllocationStrategy ELSE Unset,
        MixedOnDemandBase |->
            IF dist # Unset THEN dist[1].OnDemandBaseCapacity ELSE Unset,
        MixedSpotMaxPrice |->
            IF dist = Unset THEN Unset
            ELSE IF dist[1].SpotMaxPrice = Unset THEN Some("")
            ELSE dist[1].SpotMaxPrice,
        SuspendProcesses |-> Some(g.SuspendedProcesses),
        CapacityRebalance |-> FindCapacityRebalance(g)]

\* A Find that also drops the stale target groups from the desired task
AppendDeletionsAndPrune(e, ds) ==
    [e EXCEPT !.deletions = @ \o ds,
              !.TargetGroups = IF ds = <<>> THEN @ ELSE <<>>]

\* e.deletions = append(e.deletions, ds...): the task after Find collected
\* the deletions ds
AppendDeletions(e, ds) == [e EXCEPT !.deletions = @ \o ds]

\* AutoscalingGroup.Find on the task e (its desired fields and its
\* deletions list), desc being the outcome of DescribeAutoScalingGroups:
\* [actual, err, e, calls], e the task after the call and calls the provider
\* operations Find issued
AutoscalingGroupFind(e, desc) ==
    LET r == findAutoscalingGroup(desc, ValueOf(e.Name, ""))
        calls == <<"DescribeAutoScalingGroups">>
    IN IF r.err THEN [actual |-> Unset, err |-> TRUE, e |-> e, calls |-> calls]
       ELSE IF r.g = Unset
       THEN [actual |-> Unset, err |-> FALSE, e |-> e, calls |-> calls]
       ELSE LET g == r.g[1]
                stale == StaleTargetGroups(e, g)
            IN [actual |-> Some(ActualOf(e, g)), err |-> FALSE,
                e |-> AppendDeletions(e, [i \in 1..Len(stale) |->
                          buildDeleteAutoscalingTargetGroupAttachment(
                              g.AutoScalingGroupName, stale[i])]),
                calls |-> calls]

\* AutoscalingGroup.FindDeletions
FindDeletions(e) == e.deletions

\* The tags cloud.AddTags adds to every resource of the cluster
ClusterTagKey == <<"", "KubernetesCluster">>

ClusterTags == (ClusterTagKey :> "cluster")

\* awsup.AWSCloud.AddTags: the cluster's tags are set on the map
AddTags(tags) == MapMerge(tags, ClusterTags)

\* A Normalize that leaves the metrics in the order given
NormalizeWithoutSort(e) == [e EXCEPT !.Tags = AddTags(@)]

\* AutoscalingGroup.Normalize
AutoscalingGroupNormalize(e) == [e EXCEPT !.Metrics = SortStrings(@), !.Tags = AddTags(@)]

\* fi.RequiredField(name), or NoError
NoError == <<>>

RequiredField(name) == <<"RequiredField", name>>

\* AutoscalingGroup.CheckChanges(a, ex, changes)
AutoscalingGroupCheckChanges(a, ex) ==
    IF a # Unset
    THEN (IF ex.Name = Unset THEN RequiredField("Name") ELSE NoError)
    ELSE NoError

\* The differ: a field of the ChangeSet holds the desired value when actual
\* is absent or differs from desired, and stays empty otherwise
BuildChanges(a, e, empty) ==
    [f \in DOMAIN empty |->
        IF a = Unset THEN e[f]
        ELSE IF a[1][f] = e[f] THEN empty[f]
        ELSE e[f]]

\* The fields of a ChangeSet that are populated
Populated(changes, empty) == {f \in DOMAIN empty : changes[f] # empty[f]}

\* changes with the fields of the set F cleared (changes.F = nil)
Cleared(changes, F, empty) ==
    [f \in DOMAIN empty |-> IF f \in F THEN empty[f] ELSE changes[f]]

-----------------------------------------------------------------------------
(* The autoscaling API as RenderAWS uses it.  A group g of the cloud is a  *)
(* record of what DescribeAutoScalingGroups returns for it.                *)

Results == {"ok", "TryAgainLater", "error", "panic"}

ProviderOps ==
    {"CreateAutoScalingGroup", "EnableMetricsCollection", "SuspendProcesses",
     "ResumeProcesses", "UpdateAutoScalingGroup", "DeleteTags",
     "CreateOrUpdateTags", "DetachLoadBalancers", "AttachLoadBalancers",
     "AttachLoadBalancerTargetGroups"}

\* The provider's group for an accepted CreateAutoScalingGroup request
GroupOfRequest(req) ==
    [AutoScalingGroupName |-> req.AutoScalingGroupName[1],
     Status |-> Unset,
     MinSize |-> req.MinSize,
     MaxInstanceLifetime |-> req.MaxInstanceLifetime,
     LoadBalancerNames |-> req.LoadBalancerNames,
     TargetGroupARNs |-> req.TargetGroupARNs,
     VPCZoneIdentifier |-> req.VPCZoneIdentifier,
     EnabledMetrics |-> <<>>,
     Tags |-> req.Tags,
     LaunchTemplate |-> req.LaunchTemplate,
     MixedInstancesPolicy |-> req.MixedInstancesPolicy,
     SuspendedProcesses |-> <<>>,
     CapacityRebalance |-> req.CapacityRebalance]

\* The provider's answer to CreateAutoScalingGroup: [ok, code, invalidProfile],
\* invalidProfile saying that the message contains
\* "Invalid IAM Instance Profile name"
CreateResponse(cloud, req, fault) ==
    IF fault = "CreateAutoScalingGroup"
    THEN [ok |-> FALSE, code |-> "InternalFailure", invalidProfile |-> FALSE]
    ELSE IF req.AutoScalingGroupName = Unset
    THEN [ok |-> FALSE, code |-> "ValidationError", invalidProfile |-> FALSE]
    ELSE IF cloud.group # Unset
    THEN [ok |-> FALSE, code |-> "AlreadyExists", invalidProfile |-> FALSE]
    ELSE IF cloud.iamRejects > 0
    THEN [ok |-> FALSE, code |-> "ValidationError", invalidProfile |-> TRUE]
    ELSE [ok |-> TRUE, code |-> "", invalidProfile |-> FALSE]

\* The provider's merge of an UpdateAutoScalingGroup request into a group:
\* a nil request field leaves the group's value, MaxInstanceLifetime 0
\* clears it, a launch template replaces a mixed instances policy
UpdatedGroup(g, req) ==
    LET oldmp == g.MixedInstancesPolicy
        olddist == IF oldmp # Unset /\ oldmp[1].InstancesDistribution # Unset
                   THEN oldmp[1].InstancesDistribution[1]
                   ELSE [OnDemandBaseCapacity |-> Unset,
                         OnDemandAllocationStrategy |-> Unset,
                         SpotMaxPrice |-> Unset]
        reqmp == req.MixedInstancesPolicy
        newmp ==
            IF reqmp # Unset
            THEN LET rd == reqmp[1].InstancesDistribution[1]
                 IN Some([InstancesDistribution |-> Some(
                             [f \in DOMAIN olddist |->
                                 IF rd[f] # Unset THEN rd[f] ELSE olddist[f]]),
                          LaunchTemplate |->
                             IF reqmp[1].LaunchTemplate # Unset
                             THEN reqmp[1].LaunchTemplate
                             ELSE IF oldmp # Unset THEN oldmp[1].LaunchTemplate
                             ELSE g.LaunchTemplate])
            ELSE IF req.LaunchTemplate # Unset THEN Unset
            ELSE oldmp
    IN [g EXCEPT
          !.MinSize = IF req.MinSize # Unset THEN req.MinSize ELSE @,
          !.VPCZoneIdentifier =
              IF req.VPCZoneIdentifier # Unset THEN req.VPCZoneIdentifier ELSE @,
          !.MaxInstanceLifetime =
              IF req.MaxInstanceLifetime = Unset THEN @
              ELSE IF req.MaxInstanceLifetime[1] = 0 THEN Unset
              ELSE req.MaxInstanceLifetime,
          !.CapacityRebalance =
              IF req.CapacityRebalance # Unset THEN req.CapacityRebalance ELSE @,
          !.LaunchTemplate =
              IF reqmp # Unset THEN Unset
              ELSE IF req.LaunchTemplate # Unset THEN req.LaunchTemplate ELSE @,
          !.MixedInstancesPolicy = newmp]

\* The group metrics the provider knows; EnableMetricsCollection enables all
\* of them for a request that lists none
AllMetrics == <<1, 2, 3>>

\* The effect of one accepted provider call on the group
Apply(g, op, arg) ==
    CASE op = "EnableMetricsCollection" ->
           LET ms == IF arg.Metrics = <<>> THEN AllMetrics ELSE arg.Metrics
           IN [g EXCEPT !.EnabledMetrics =
                 SelectSeq(@, LAMBDA m : m.Metric \notin Range(ms))
                 \o [i \in 1..Len(ms) |->
                       [Metric |-> ms[i], Granularity |-> arg.Granularity]]]
      [] op = "SuspendProcesses" ->
           [g EXCEPT !.SuspendedProcesses = @ \o FilterOut(arg, Range(@))]
      [] op = "ResumeProcesses" ->
           [g EXCEPT !.SuspendedProcesses = FilterOut(@, Range(arg))]
      [] op = "UpdateAutoScalingGroup" -> UpdatedGroup(g, arg)
      [] op = "DeleteTags" -> [g EXCEPT !.Tags = MapRemove(@, DOMAIN arg)]
      [] op = "CreateOrUpdateTags" -> [g EXCEPT !.Tags = MapMerge(@, arg)]
      [] op = "DetachLoadBalancers" ->
           [g EXCEPT !.LoadBalancerNames = FilterOut(@, Range(arg))]
      [] op = "AttachLoadBalancers" ->
           [g EXCEPT !.LoadBalancerNames = @ \o FilterOut(arg, Range(@))]
      [] op = "AttachLoadBalancerTargetGroups" ->
           [g EXCEPT !.TargetGroupARNs = @ \o FilterOut(arg, Range(@))]
      [] op = "DetachLoadBalancerTargetGroups" ->
           [g EXCEPT !.TargetGroupARNs = FilterOut(@, Range(arg))]

\* One provider call RenderAWS issues: the operation, its request, and the
\* ChangeSet fields RenderAWS has cleared by the time it issues the call
Call(op, arg, cleared) == [op |-> op, arg |-> arg, cleared |-> cleared]

RECURSIVE RunCallsPastFailure(_, _, _, _)
\* Calls issued in order with no check of their errors: a call that fails
\* changes nothing and the calls after it are issued all the same
RunCallsPastFailure(steps, g, fault, log) ==
    IF steps = <<>> THEN [ok |-> TRUE, g |-> g, log |-> log, failed |-> Unset]
    ELSE LET c == Head(steps)
         IN IF c.op = fault
            THEN RunCallsPastFailure(Tail(steps), g, "none",
                                     Append(log, [op |-> c.op, ok |-> FALSE]))
            ELSE RunCallsPastFailure(Tail(steps), Apply(g, c.op, c.arg), fault,
                                     Append(log, [op |-> c.op, ok |-> TRUE]))

RECURSIVE RunCalls(_, _, _, _)
\* The calls of steps issued in order against group g until one fails (the
\* first call of operation fault): [ok, g, log, done], log listing each
\* call issued with its outcome and done counting the calls that succeeded
RunCalls(steps, g, fault, log) ==
    IF steps = <<>> THEN [ok |-> TRUE, g |-> g, log |-> log, failed |-> Unset]
    ELSE LET c == Head(steps)
         IN IF c.op = fault
            THEN [ok |-> FALSE, g |-> g,
                  log |-> Append(log, [op |-> c.op, ok |-> FALSE]),
                  failed |-> Some(c)]
            ELSE RunCalls(Tail(steps), Apply(g, c.op, c.arg), fault,
                          Append(log, [op |-> c.op, ok |-> TRUE]))

-----------------------------------------------------------------------------
(* AutoscalingGroup.RenderAWS *)

attachLoadBalancerTargetGroupsMaxItems == 10

UseMixedInstancesPolicy(x) ==
    IF x.LaunchTemplate = Unset THEN FALSE
    ELSE x.MixedOnDemandBase # Unset \/ x.MixedSpotMaxPrice # Unset

AutoscalingGroupTags(e) == e.Tags

AutoscalingGroupSubnets(e) == e.Subnets

AutoscalingLoadBalancers(e) == e.LoadBalancers

AutoscalingTargetGroups(e) == e.TargetGroups

\* processCompare: the processes of a that are not in b
processCompare(a, b) == FilterOut(a, Range(b))

\* A delete request that names no tag
getASGTagsToDeleteNone(e, currentTags) == EmptyMap

getASGTagsToDelete(e, currentTags) == MapRemove(currentTags, DOMAIN e.Tags)

getLBsToDetach(e, currentLBs) == FilterOut(currentLBs, Range(e.LoadBalancers))

\* A chunking that puts the whole slice in one chunk
sliceChunksWhole(slice, chunkSize) == IF slice = <<>> THEN <<>> ELSE <<slice>>

RECURSIVE sliceChunksFrom(_, _, _)
sliceChunksFrom(slice, chunkSize, i) ==
    IF i >= Len(slice) THEN <<>>
    ELSE LET chunk == IF i + chunkSize < Len(slice)
                      THEN SubSeq(slice, i + 1, i + chunkSize)
                      ELSE SubSeq(slice, i + 1, Len(slice))
         IN <<chunk>> \o sliceChunksFrom(slice, chunkSize, i + chunkSize)

sliceChunks(slice, chunkSize) == sliceChunksFrom(slice, chunkSize, 0)

\* The request RenderAWS builds on the create path
CreateRequest(e) ==
    [AutoScalingGroupName |-> e.Name,
     MinSize |-> e.MinSize,
     Tags |-> AutoscalingGroupTags(e),
     VPCZoneIdentifier |-> Some(Join(AutoscalingGroupSubnets(e))),
     CapacityRebalance |-> e.CapacityRebalance,
     MaxInstanceLifetime |->
         IF ValueOf(e.MaxInstanceLifetime, 0) = 0 THEN Unset
         ELSE e.MaxInstanceLifetime,
     LoadBalancerNames |-> e.LoadBalancers,
     TargetGroupARNs |-> e.TargetGroups,
     MixedInstancesPolicy |->
         IF UseMixedInstancesPolicy(e)
         THEN Some([InstancesDistribution |-> Some(
                       [OnDemandBaseCapacity |-> e.MixedOnDemandBase,
                        OnDemandAllocationStrategy |-> Unset,
                        SpotMaxPrice |-> e.MixedSpotMaxPrice]),
                    LaunchTemplate |-> e.LaunchTemplate])
         ELSE Unset,
     LaunchTemplate |->
         IF UseMixedInstancesPolicy(e) THEN Unset ELSE e.LaunchTemplate]

\* A RenderAWS that reports success when the create fails
CreateErrorIgnored(resp) == "ok"

\* A RenderAWS for which every failed create is a plain error
CreateErrorFatal(resp) == "error"

\* What RenderAWS returns when CreateAutoScalingGroup fails with resp
CreateErrorResult(resp) ==
    IF resp.code = "ValidationError" /\ resp.invalidProfile
    THEN "TryAgainLater" ELSE "error"

\* A RenderAWS that asks for a retry when a call after the create fails
CallErrorRetried(op) == "TryAgainLater"

\* What RenderAWS returns when a provider call other than the create fails
CallErrorResult(op) == "error"

\* RenderAWS with a = nil: [result, cloud, changes, log]
RenderAWSCreate(e, changes, cloud, fault) ==
    IF ~UseMixedInstancesPolicy(e) /\ e.LaunchTemplate = Unset
    THEN [result |-> "error", cloud |-> cloud, changes |-> changes, log |-> <<>>]
    ELSE
    LET req == CreateRequest(e)
        resp == CreateResponse(cloud, req, fault)
    IN IF ~resp.ok
       THEN [result |-> CreateErrorResult(resp),
             cloud |-> [cloud EXCEPT !.iamRejects =
                           IF resp.invalidProfile THEN @ - 1 ELSE @],
             changes |-> changes,
             log |-> <<[op |-> "CreateAutoScalingGroup", ok |-> FALSE]>>]
       ELSE
       LET suspend == ValueOf(e.SuspendProcesses, <<>>)
           steps ==
               <<Call("EnableMetricsCollection",
                      [Granularity |-> e.Granularity, Metrics |-> e.Metrics], {})>>
               \o (IF Len(suspend) > 0
                   THEN <<Call("SuspendProcesses", suspend, {})>> ELSE <<>>)
           r == RunCalls(steps, GroupOfRequest(req), fault,
                         <<[op |-> "CreateAutoScalingGroup", ok |-> TRUE]>>)
       IN [result |-> IF ~r.ok THEN CallErrorResult(r.failed[1].op)
                      ELSE IF e.SuspendProcesses = Unset THEN "panic"
                      ELSE "ok",
           cloud |-> [cloud EXCEPT !.group = Some(r.g)],
           changes |-> changes,
           log |-> r.log]

\* The ChangeSet fields the update path clears while it builds its requests
ClearedWithRequest ==
    {"LaunchTemplate", "MixedOnDemandBase", "MixedSpotMaxPrice", "MinSize",
     "Subnets", "MaxInstanceLifetime", "Tags", "LoadBalancers", "TargetGroups"}

\* The MaxInstanceLifetime of the update request
UpdateMaxInstanceLifetime(e, changes) ==
    IF changes.MaxInstanceLifetime # Unset THEN e.MaxInstanceLifetime ELSE Some(0)

\* Whether the update path calls EnableMetricsCollection
UpdateEnablesMetrics(e, changes) ==
    (changes.Metrics # <<>> \/ changes.Granularity # Unset) /\ Len(e.Metrics) # 0

\* The UpdateAutoScalingGroupInput of the update path
UpdateRequest(a, e, changes) ==
    LET newLT == changes.LaunchTemplate # Unset
                 \/ (UseMixedInstancesPolicy(a) /\ ~UseMixedInstancesPolicy(e))
        mixedLT == newLT /\ UseMixedInstancesPolicy(e)
        setup == mixedLT \/ changes.MixedOnDemandBase # Unset
                 \/ changes.MixedSpotMaxPrice # Unset
    IN [AutoScalingGroupName |-> e.Name,
        LaunchTemplate |-> IF newLT /\ ~mixedLT THEN e.LaunchTemplate ELSE Unset,
        MixedInstancesPolicy |->
            IF setup
            THEN Some([InstancesDistribution |-> Some(
                          [OnDemandBaseCapacity |->
                               IF changes.MixedOnDemandBase # Unset
                               THEN e.MixedOnDemandBase ELSE Unset,
                           OnDemandAllocationStrategy |-> Unset,
                           SpotMaxPrice |->
                               IF changes.MixedSpotMaxPrice # Unset
                               THEN e.MixedSpotMaxPrice ELSE Unset]),
                       LaunchTemplate |->
                           IF mixedLT THEN e.LaunchTemplate ELSE Unset])
            ELSE Unset,
        MinSize |-> IF changes.MinSize # Unset THEN e.MinSize ELSE Unset,
        VPCZoneIdentifier |->
            IF changes.Subnets # <<>>
            THEN Some(Join(AutoscalingGroupSubnets(e))) ELSE Unset,
        MaxInstanceLifetime |-> UpdateMaxInstanceLifetime(e, changes),
        CapacityRebalance |->
            IF changes.CapacityRebalance # Unset THEN e.CapacityRebalance
            ELSE Unset]

\* The provider calls of the update path, in the order the code issues them
UpdateCalls(a, e, changes) ==
    LET metrics == UpdateEnablesMetrics(e, changes)
        afterMetrics == ClearedWithRequest
                        \cup (IF metrics THEN {"Metrics", "Granularity"} ELSE {})
        all == afterMetrics \cup {"SuspendProcesses", "CapacityRebalance"}
        procs == changes.SuspendProcesses # Unset
        toSuspend == IF procs
                     THEN processCompare(e.SuspendProcesses[1], a.SuspendProcesses[1])
                     ELSE <<>>
        toResume == IF procs
                    THEN processCompare(a.SuspendProcesses[1], e.SuspendProcesses[1])
                    ELSE <<>>
        tags == changes.Tags # EmptyMap
        toDelete == IF tags /\ a.Tags # EmptyMap
                    THEN getASGTagsToDelete(e, a.Tags) ELSE EmptyMap
        lbs == changes.LoadBalancers # <<>>
        chunks == IF changes.TargetGroups # <<>> /\ Len(e.TargetGroups) > 0
                  THEN sliceChunks(AutoscalingTargetGroups(e),
                                   attachLoadBalancerTargetGroupsMaxItems)
                  ELSE <<>>
    IN (IF metrics
        THEN <<Call("EnableMetricsCollection",
                    [Granularity |-> e.Granularity, Metrics |-> e.Metrics],
                    ClearedWithRequest)>>
        ELSE <<>>)
       \o (IF Len(toSuspend) > 0
           THEN <<Call("SuspendProcesses", toSuspend, afterMetrics)>> ELSE <<>>)
       \o (IF Len(toResume) > 0
           THEN <<Call("ResumeProcesses", toResume, afterMetrics)>> ELSE <<>>)
       \o <<Call("UpdateAutoScalingGroup", UpdateRequest(a, e, changes), all)>>
       \o (IF toDelete # EmptyMap
           THEN <<Call("DeleteTags", toDelete, all)>> ELSE <<>>)
       \o (IF tags
           THEN <<Call("CreateOrUpdateTags", AutoscalingGroupTags(e), all)>>
           ELSE <<>>)
       \o (IF lbs /\ Len(a.LoadBalancers) > 0
           THEN <<Call("DetachLoadBalancers",
                       getLBsToDetach(e, a.LoadBalancers), all)>>
           ELSE <<>>)
       \o (IF lbs /\ Len(e.LoadBalancers) > 0
           THEN <<Call("AttachLoadBalancers", AutoscalingLoadBalancers(e), all)>>
           ELSE <<>>)
       \o [i \in 1..Len(chunks) |->
             Call("AttachLoadBalancerTargetGroups", chunks[i], all)]

\* The ChangeSet fields the update path has cleared when it returns success
ClearedOnSuccess(e, changes) ==
    ClearedWithRequest
    \cup (IF UpdateEnablesMetrics(e, changes) THEN {"Metrics", "Granularity"} ELSE {})
    \cup {"SuspendProcesses", "CapacityRebalance"}

\* RenderAWS with a # nil: [result, cloud, changes, log]
RenderAWSUpdate(a, e, changes, cloud, fault) ==
    IF (changes.LaunchTemplate # Unset
        \/ (UseMixedInstancesPolicy(a) /\ ~UseMixedInstancesPolicy(e)))
       /\ e.LaunchTemplate = Unset
    THEN [result |-> "panic", cloud |-> cloud, changes |-> changes, log |-> <<>>]
    ELSE
    LET r == RunCalls(UpdateCalls(a, e, changes), cloud.group[1], fault, <<>>)
    IN [result |-> IF r.ok THEN "ok" ELSE CallErrorResult(r.failed[1].op),
        cloud |-> [cloud EXCEPT !.group = Some(r.g)],
        changes |-> Cleared(changes,
                            IF r.ok THEN ClearedOnSuccess(e, changes)
                            ELSE r.failed[1].cleared,
                            EmptyASG),
        log |-> r.log]

\* AutoscalingGroup.RenderAWS(t, a, e, changes)
RenderAWS(a, e, changes, cloud, fault) ==
    IF a = Unset THEN RenderAWSCreate(e, changes, cloud, fault)
    ELSE RenderAWSUpdate(a[1], e, changes, cloud, fault)

\* deleteAutoscalingTargetGroupAttachment.Delete: [ok, cloud]
Delete(d, cloud, fault) ==
    IF fault = "DetachLoadBalancerTargetGroups" \/ cloud.group = Unset
    THEN [ok |-> FALSE, cloud |-> cloud]
    ELSE [ok |-> TRUE,
          cloud |-> [cloud EXCEPT !.group =
              Some(Apply(@[1], "DetachLoadBalancerTargetGroups",
                         <<d.targetGroupARN>>))]]

-----------------------------------------------------------------------------
(* The Terraform target: Render appends to a document instead of calling   *)
(* the provider. A target t is [resources, outputs]: the resource records  *)
(* <<type, name>> in the order rendered, and the registrations             *)
(* <<variable, literal>> of output array variables in the order made.      *)

EmptyTarget == [resources |-> <<>>, outputs |-> <<>>]

\* TerraformTarget.RenderResource(resourceType, resourceName, e)
RenderResource(t, resourceType, resourceName) ==
    [t EXCEPT !.resources = Append(@, <<resourceType, resourceName>>)]

\* TerraformTarget.AddOutputVariableArray(key, literal)
AddOutputVariableArray(t, key, literal) ==
    [t EXCEPT !.outputs = Append(@, <<key, literal>>)]

\* terraformWriter.LiteralProperty(resourceType, resourceName, prop)
LiteralProperty(resourceType, resourceName, prop) ==
    <<resourceType, resourceName, prop>>

\* AutoscalingGroup.TerraformLink
AutoscalingGroupTerraformLink(e) ==
    LiteralProperty("aws_autoscaling_group", ValueOf(e.Name, ""), "id")

\* Subnet.TerraformLink
SubnetTerraformLink(s) == LiteralProperty("aws_subnet", s, "id")

RECURSIVE Orders(_)
\* The orders in which a range over a map with the keys S may visit them
Orders(S) ==
    IF S = {} THEN {<<>>}
    ELSE UNION {{<<k>> \o o : o \in Orders(S \ {k})} : k \in S}

RECURSIVE RoleOfLastTag(_, _, _)
\* A loop over the tags that keeps the role of the last role tag visited
RoleOfLastTag(order, i, role) ==
    IF i > Len(order) THEN [err |-> FALSE, role |-> role]
    ELSE IF HasPrefix(order[i], CloudTagInstanceGroupRolePrefix)
    THEN RoleOfLastTag(order, i + 1,
                       IF order[i][2] = "control-plane" THEN "master"
                       ELSE order[i][2])
    ELSE RoleOfLastTag(order, i + 1, role)

RECURSIVE RoleOfTags(_, _, _)
\* The loop over the tags, visited in the order given, from position i with
\* the role found so far: [err, role]
RoleOfTags(order, i, role) ==
    IF i > Len(order) THEN [err |-> FALSE, role |-> role]
    ELSE IF HasPrefix(order[i], CloudTagInstanceGroupRolePrefix)
    THEN LET trimmed == order[i][2]
             suffix == IF trimmed = "control-plane" THEN "master" ELSE trimmed
         IN IF role # "" /\ role # suffix
            THEN [err |-> TRUE, role |-> role]
            ELSE RoleOfTags(order, i + 1, suffix)
    ELSE RoleOfTags(order, i + 1, role)

RECURSIVE AddSubnetOutputs(_, _, _, _)
\* The loop registering the subnets under role_subnet_ids
AddSubnetOutputs(t, role, subnets, i) ==
    IF i > Len(subnets) THEN t
    ELSE AddSubnetOutputs(
             AddOutputVariableArray(t, <<role, "_subnet_ids">>,
                                    SubnetTerraformLink(subnets[i])),
             role, subnets, i + 1)

\* A render that reports success without writing its resource record
AutoscalingGroupRenderNothing(t, e, order) ==
    [result |-> "ok", t |-> t, calls |-> <<>>]

\* AutoscalingGroup.RenderTerraform on target t, the range over e.Tags
\* visiting the keys in the order given: [result, t, calls]. The launch
\* templates of the model have no security groups.
AutoscalingGroupRenderTerraform(t, e, order) ==
    IF ~UseMixedInstancesPolicy(e) /\ e.LaunchTemplate = Unset
    THEN [result |-> "error", t |-> t, calls |-> <<>>]
    ELSE LET r == RoleOfTags(order, 1, "")
             role == r.role
             t1 == IF role # ""
                   THEN AddOutputVariableArray(
                            t, <<role, "_autoscaling_group_ids">>,
                            AutoscalingGroupTerraformLink(e))
                   ELSE t
             t2 == IF role = "node"
                   THEN AddSubnetOutputs(t1, role, e.Subnets, 1)
                   ELSE t1
         IN IF r.err
            THEN [result |-> "error", t |-> t, calls |-> <<>>]
            ELSE [result |-> "ok",
                  t |-> RenderResource(t2, "aws_autoscaling_group", e.Name[1]),
                  calls |-> <<>>]

\* ProjectIAMBinding.RenderTerraform on target t: [result, t, calls]
ProjectIAMBindingRenderTerraform(t, e) ==
    [result |-> "ok",
     t |-> RenderResource(t, "google_project_iam_binding", e.Name[1]),
     calls |-> <<>>]

-----------------------------------------------------------------------------
(* The inputs of the AutoscalingGroup pipeline: the desired task handed to *)
(* a pass and the group the cloud holds before the first pass.             *)

MaxRejects == 3

MaxPasses == 2

MaxAttempts == 3

RoleNodeKey == <<CloudTagInstanceGroupRolePrefix, "node">>

BaseDesired ==
    [Name |-> Some("asg1"), MinSize |-> Some(1), MaxInstanceLifetime |-> Some(0),
     Metrics |-> <<1, 2>>, Granularity |-> Some("1Minute"), Subnets |-> <<1, 2>>,
     Tags |-> (RoleNodeKey :> "1"), TargetGroups |-> <<1>>,
     LoadBalancers |-> <<1>>, SuspendProcesses |-> Some(<<>>),
     CapacityRebalance |-> Unset, LaunchTemplate |-> Some("lt-1"),
     MixedOnDemandAllocationStrategy |-> Unset, MixedOnDemandBase |-> Unset,
     MixedSpotMaxPrice |-> Unset]

\* The longest list of target groups the chunking is checked for
MaxTargetGroups == 21

\* The other values a desired field takes
DesiredValues ==
    [Name |-> {Unset},
     MinSize |-> {Some(2)},
     MaxInstanceLifetime |-> {Some(7)},
     Metrics |-> {<<>>, <<2, 1>>},
     Granularity |-> {},
     Subnets |-> {<<2, 1>>, <<1>>},
     Tags |-> {(RoleNodeKey :> "1") @@ (<<"", "owner">> :> "me")},
     TargetGroups |-> {<<>>},
     LoadBalancers |-> {<<>>, <<2>>},
     SuspendProcesses |-> {Some(<<1>>)},
     CapacityRebalance |-> {Some(TRUE)},
     LaunchTemplate |-> {Unset, Some("lt-2")},
     MixedOnDemandAllocationStrategy |-> {Some("lowest-price")},
     MixedOnDemandBase |-> {Some(1)},
     MixedSpotMaxPrice |-> {}]

\* The desired tasks: BaseDesired, BaseDesired with one field changed, a
\* task that keeps a maximum instance lifetime while it changes the size,
\* and a task with one target group more than an attach request may name
DesiredInputs ==
    {BaseDesired,
     [BaseDesired EXCEPT !.MaxInstanceLifetime = Some(7), !.MinSize = Some(2)],
     [BaseDesired EXCEPT !.TargetGroups =
         [i \in 1..(attachLoadBalancerTargetGroupsMaxItems + 1) |-> i]]}
    \cup UNION {{[BaseDesired EXCEPT ![f] = v] : v \in DesiredValues[f]} :
                  f \in ASGFields}

\* The group a pass creates for BaseDesired
BaseGroup ==
    [AutoScalingGroupName |-> "asg1", Status |-> Unset, MinSize |-> Some(1),
     MaxInstanceLifetime |-> Unset, LoadBalancerNames |-> <<1>>,
     TargetGroupARNs |-> <<1>>, VPCZoneIdentifier |-> Some(<<1, Comma, 2>>),
     EnabledMetrics |-> <<[Metric |-> 1, Granularity |-> Some("1Minute")],
                          [Metric |-> 2, Granularity |-> Some("1Minute")]>>,
     Tags |-> (RoleNodeKey :> "1") @@ ClusterTags,
     LaunchTemplate |-> Some("lt-1"), MixedInstancesPolicy |-> Unset,
     SuspendedProcesses |-> <<>>, CapacityRebalance |-> Unset]

\* The groups the cloud may hold before the first pass: BaseGroup, or
\* BaseGroup with one attribute changed
CloudGroups ==
    {BaseGroup,
     [BaseGroup EXCEPT !.Status = Some("Delete in progress")],
     [BaseGroup EXCEPT !.MinSize = Some(2)],
     [BaseGroup EXCEPT !.MaxInstanceLifetime = Some(7)],
     [BaseGroup EXCEPT !.LoadBalancerNames = <<2>>],
     [BaseGroup EXCEPT !.TargetGroupARNs = <<2, 1>>],
     [BaseGroup EXCEPT !.TargetGroupARNs = <<>>],
     [BaseGroup EXCEPT !.VPCZoneIdentifier = Some(<<2, Comma, 1>>)],
     [BaseGroup EXCEPT !.VPCZoneIdentifier = Some(<<3>>)],
     [BaseGroup EXCEPT !.EnabledMetrics =
         <<[Metric |-> 2, Granularity |-> Some("1Minute")],
           [Metric |-> 1, Granularity |-> Some("1Minute")]>>],
     [BaseGroup EXCEPT !.EnabledMetrics = <<>>],
     [BaseGroup EXCEPT !.Tags = @ @@ (<<"", "old">> :> "x")],
     [BaseGroup EXCEPT !.Tags = @ @@ (<<CloudFormationPrefix, "stack-id">> :> "s")],
     [BaseGroup EXCEPT !.LaunchTemplate = Some("lt-0")],
     [BaseGroup EXCEPT !.LaunchTemplate = Unset,
                       !.MixedInstancesPolicy = Some(
         [InstancesDistribution |-> Some([OnDemandBaseCapacity |-> Some(1),
                                          OnDemandAllocationStrategy |-> Unset,
                                          SpotMaxPrice |-> Unset]),
          LaunchTemplate |-> Some("lt-1")])],
     [BaseGroup EXCEPT !.SuspendedProcesses = <<1>>],
     [BaseGroup EXCEPT !.CapacityRebalance = Some(TRUE)]}

\* What the provider may inject as the failing operation of one step
Faults == ProviderOps \cup {"DetachLoadBalancerTargetGroups", "none"}

-----------------------------------------------------------------------------
(* The ProjectIAMBinding task.  A policy is the sequence of its bindings   *)
(* [Role, Members, Condition]; Condition says whether the binding has one. *)
(* The member of a service account is the pair <<"serviceAccount:", email>>*)

IAMFields == {"Name", "Project", "MemberServiceAccount", "Role"}

\* &ProjectIAMBinding{}
EmptyIAM ==
    [Name |-> Unset, Project |-> Unset, MemberServiceAccount |-> Unset,
     Role |-> Unset]

MemberOf(e) == <<"serviceAccount:", ValueOf(e.MemberServiceAccount[1].Email, "")>>

RECURSIVE patchBindings(_, _, _)
\* The loop of patchCRMPolicy over the bindings bs: [changed, bindings,
\* matched], matched saying that the loop returned from inside
patchBindings(bs, wantMember, wantRole) ==
    IF bs = <<>> THEN [changed |-> FALSE, bindings |-> <<>>, matched |-> FALSE]
    ELSE LET b == Head(bs)
         IN IF b.Condition \/ b.Role # wantRole
            THEN LET r == patchBindings(Tail(bs), wantMember, wantRole)
                 IN [r EXCEPT !.bindings = <<b>> \o @]
            ELSE IF \E i \in 1..Len(b.Members) : b.Members[i] = wantMember
            THEN [changed |-> FALSE, bindings |-> bs, matched |-> TRUE]
            ELSE [changed |-> TRUE,
                  bindings |-> <<[b EXCEPT !.Members = Append(@, wantMember)]>>
                               \o Tail(bs),
                  matched |-> TRUE]

\* A patch that appends the wanted binding whatever the policy holds
patchCRMPolicyAppending(policy, wantMember, wantRole) ==
    [changed |-> TRUE,
     policy |-> Append(policy, [Role |-> wantRole, Members |-> <<wantMember>>,
                                Condition |-> FALSE])]

\* patchCRMPolicy(policy, wantMember, wantRole): [changed, policy]
patchCRMPolicy(policy, wantMember, wantRole) ==
    LET r == patchBindings(policy, wantMember, wantRole)
    IN IF r.matched THEN [changed |-> r.changed, policy |-> r.bindings]
       ELSE [changed |-> TRUE,
             policy |-> Append(policy, [Role |-> wantRole,
                                        Members |-> <<wantMember>>,
                                        Condition |-> FALSE])]

\* The provider's answer to GetIamPolicy(projectID): [err, policy] with err
\* one of "none", "notFound", "other"
GetIamPolicy(policies, projectID, fail) ==
    IF fail THEN [err |-> "other", policy |-> <<>>]
    ELSE IF projectID \notin DOMAIN policies
    THEN [err |-> "notFound", policy |-> <<>>]
    ELSE [err |-> "none", policy |-> policies[projectID]]

\* ProjectIAMBinding.Find: [actual, result, e, calls]
ProjectIAMBindingFind(e, policies, fail) ==
    IF e.MemberServiceAccount = Unset
    THEN [actual |-> Unset, result |-> "panic", e |-> e, calls |-> <<>>]
    ELSE
    LET resp == GetIamPolicy(policies, ValueOf(e.Project, ""), fail)
        calls == <<"GetIamPolicy">>
    IN IF resp.err = "notFound"
       THEN [actual |-> Unset, result |-> "ok", e |-> e, calls |-> calls]
       ELSE IF resp.err # "none"
       THEN [actual |-> Unset, result |-> "error", e |-> e, calls |-> calls]
       ELSE IF patchCRMPolicy(resp.policy, MemberOf(e), ValueOf(e.Role, "")).changed
       THEN [actual |-> Unset, result |-> "ok", e |-> e, calls |-> calls]
       ELSE [actual |-> Some([Name |-> e.Name, Project |-> e.Project,
                              MemberServiceAccount |-> e.MemberServiceAccount,
                              Role |-> e.Role]),
             result |-> "ok", e |-> e, calls |-> calls]

\* ProjectIAMBinding.CheckChanges(a, e, changes)
ProjectIAMBindingCheckChanges(a, e) ==
    IF ValueOf(e.Project, "") = "" THEN RequiredField("Project")
    ELSE IF e.MemberServiceAccount = Unset
    THEN RequiredField("MemberServiceAccount")
    ELSE IF ValueOf(e.MemberServiceAccount[1].Email, "") = ""
    THEN RequiredField("MemberServiceAccount.Email")
    ELSE IF ValueOf(e.Role, "") = "" THEN RequiredField("Role")
    ELSE NoError

\* gce.MutexForProjectIAM(projectID): the key of the project's mutex
MutexForProjectIAM(projectID) == projectID

\* A Lock that never waits
LockNeverWaits(mutex, key) == TRUE

\* localMutex.Lock() returns only when no other caller holds the mutex
LockFree(mutex, key) == mutex[key] = 0

\* defer localMutex.Unlock(): the mutex after RenderGCE returns on path,
\* one of "getError", "noChange", "setError", "success"
UnlockOnReturn(mutex, key, path) == [mutex EXCEPT ![key] = 0]

Projects == {"p1", "p2"}

Procs == {1, 2}

IAMBinding(project, email, role) ==
    [Name |-> Some("binding"), Project |-> project,
     MemberServiceAccount |-> email, Role |-> role]

\* The desired bindings of the first task: two valid ones, and one with each
\* required field unset
IAMInputs1 ==
    {IAMBinding(Some("p1"), Some([Email |-> Some("a")]), Some("r1")),
     IAMBinding(Some("p1"), Some([Email |-> Some("a")]), Some("r2")),
     IAMBinding(Unset, Some([Email |-> Some("a")]), Some("r1")),
     IAMBinding(Some("p1"), Unset, Some("r1")),
     IAMBinding(Some("p1"), Some([Email |-> Unset]), Some("r1")),
     IAMBinding(Some("p1"), Some([Email |-> Some("a")]), Unset)}

\* The desired bindings of the second task
IAMInputs2 ==
    {IAMBinding(Some(p), Some([Email |-> Some(m)]), Some("r1")) :
        p \in Projects, m \in {"a", "b"}}

MemberA == <<"serviceAccount:", "a">>

MemberC == <<"serviceAccount:", "c">>

\* The policies project p1 may hold before the first pass
InitialPolicies ==
    {<<>>,
     <<[Role |-> "r1", Members |-> <<MemberA>>, Condition |-> FALSE]>>,
     <<[Role |-> "r1", Members |-> <<MemberA>>, Condition |-> TRUE]>>,
     <<[Role |-> "r1", Members |-> <<MemberC>>, Condition |-> FALSE],
       [Role |-> "r1", Members |-> <<MemberA>>, Condition |-> FALSE]>>}

-----------------------------------------------------------------------------
(* The per-task pipeline of a pass, Normalize -> Find -> diff ->           *)
(* CheckChanges -> Render, run for one AutoscalingGroup (kind "asg") or    *)
(* for two ProjectIAMBinding tasks in parallel (kind "iam"), pass after    *)
(* pass over the same cloud.                                               *)

VARIABLES
    kind,        \* "asg" or "iam"
    input,       \* the desired AutoscalingGroup every pass is handed
    e,           \* the task of the current pass: desired fields, deletions
    a,           \* the actual state Find returned (Unset: nil)
    changes,     \* the ChangeSet
    pending,     \* the Deletions still to run in this pass
    delFailed,   \* a Deletion of this pass failed
    pc,          \* the pipeline step to run next
    pass,        \* the number of the current pass
    result,      \* "none", or what the last step returned
    checkErr,    \* the error CheckChanges returned
    cloud,       \* [group, iamRejects]: the AWS side
    log,         \* the provider calls of the last step, [op, ok] each
    attempts,    \* the retry delays observed in this pass
    renders,     \* the Render invocations of this pass
    firstResult, \* the outcome of the previous pass
    ie, ia, ichanges, ipc, ipass, iresult, icheckErr, ifirst,
    ilog,        \* per task, the provider calls of its last step
    local,       \* per task, the policy RenderGCE read
    seen,        \* per task, the policy Find read
    policies,    \* the IAM policy of each project
    mutex        \* per project key, the task that holds its mutex, or 0

asgVars == <<input, e, a, changes, pending, delFailed, pc, pass, result, checkErr, cloud,
             log, attempts, renders, firstResult>>

iamVars == <<ie, ia, ichanges, ipc, ipass, iresult, icheckErr, ifirst, ilog,
             local, seen, policies, mutex>>

\* The executor's state over the task graph (kind "engine"); the desired
\* AutoscalingGroup of the graph is input and its provider is cloud
VARIABLES
    declared,    \* per task other than the AutoscalingGroup, its dependencies
    rejects0,    \* the creates the provider rejects before the profile shows
    built,       \* "none", or the outcome of graph construction
    cycleReport, \* the tasks the cycle error names
    graph,       \* per task, its direct predecessors in the built graph
    indeg,       \* per task, its in-degree counter
    status,      \* per task, its state in the pass
    renderCount, \* per task, the Render invocations started
    delays,      \* per task, the retry delays observed
    tfTarget,    \* the Terraform target: [resources, outputs]
    phase,       \* "primary", "deletions" or "done"
    passOutcome  \* "none", or the outcome the pass reports

runVars == <<tfTarget, phase, passOutcome>>

engVars == <<declared, rejects0, built, cycleReport, graph, indeg, status,
             renderCount, delays, runVars>>

vars == <<kind, asgVars, iamVars, engVars>>

\* The task a pass constructs from the desired input
NewTask(d) == [f \in ASGFields \cup {"deletions"} |->
                  IF f = "deletions" THEN <<>> ELSE d[f]]

\* The desired attributes of a task
DesiredOf(t) == [f \in ASGFields |-> t[f]]

\* DescribeAutoScalingGroups: the outcome of the paginator
Describe(c, fail) ==
    [err |-> fail,
     pages |-> IF c.group = Unset THEN NoPages ELSE << <<c.group[1]>> >>]

MutexKeys == Projects \cup {""}

\* The tasks of the graph the executor runs. The ProjectIAMBinding is part
\* of the run on the Terraform target only: elsewhere its status is "absent"
ASGTask == <<"AutoscalingGroup", "asg1">>

VPCTask == <<"VPC", 1>>

SubnetTask == <<"Subnet", 1>>

IAMTask == <<"ProjectIAMBinding", "binding">>

Tasks ==
    {ASGTask, VPCTask, SubnetTask, <<"LoadBalancer", 1>>, <<"TargetGroup", 1>>,
     <<"LaunchTemplate", "lt-1">>, IAMTask}

\* What the tasks other than the AutoscalingGroup declare: the subnet, the
\* load balancer and the target group depend on the VPC, the launch
\* template on nothing
DeclaredDAG ==
    [t \in Tasks \ {ASGTask} |->
        IF t[1] \in {"Subnet", "LoadBalancer", "TargetGroup"} THEN {VPCTask}
        ELSE {}]

\* The same with the VPC declaring the first subnet: a cycle of two tasks
DeclaredCycle == [DeclaredDAG EXCEPT ![VPCTask] = {SubnetTask}]

\* The same with the launch template declaring the AutoscalingGroup
DeclaredCycleASG == [DeclaredDAG EXCEPT ![<<"LaunchTemplate", "lt-1">>] = {ASGTask}]

\* The same with the load balancer declaring the AutoscalingGroup: a
\* dependent of the AutoscalingGroup when it desires no load balancer, a
\* cycle otherwise
DeclaredDependent == [DeclaredDAG EXCEPT ![<<"LoadBalancer", 1>>] = {ASGTask}]

\* The desired AutoscalingGroups of the graph
EngineInputs ==
    {[BaseDesired EXCEPT !.Subnets = <<1>>],
     [BaseDesired EXCEPT !.Subnets = <<1>>, !.LoadBalancers = <<>>],
     [BaseDesired EXCEPT !.Subnets = <<1>>, !.TargetGroups = <<>>]}

Workers == 2

\* The executor before graph construction
EngineIdle ==
    /\ built = "none"
    /\ cycleReport = {}
    /\ graph = [t \in Tasks |-> {}]
    /\ indeg = [t \in Tasks |-> 0]
    /\ status = [t \in Tasks |->
                    IF t = IAMTask /\ kind # "terraform" THEN "absent"
                    ELSE "pending"]
    /\ renderCount = [t \in Tasks |-> 0]
    /\ delays = [t \in Tasks |-> 0]
    /\ tfTarget = EmptyTarget
    /\ phase = "primary"
    /\ passOutcome = "none"

InitASG ==
    /\ kind = "asg"
    /\ input \in DesiredInputs
    /\ \E g \in {Unset} \cup {Some(x) : x \in CloudGroups}, n \in 0..MaxRejects :
          cloud = [group |-> g, iamRejects |-> n]
    /\ pc = "normalize"
    /\ ipc = [p \in Procs |-> "off"]
    /\ ie = [p \in Procs |-> EmptyIAM]
    /\ policies = [p \in Projects |-> <<>>]

InitIAM ==
    /\ kind = "iam"
    /\ input = BaseDesired
    /\ cloud = [group |-> Unset, iamRejects |-> 0]
    /\ pc = "off"
    /\ ipc = [p \in Procs |-> "find"]
    /\ \E d1 \in IAMInputs1, d2 \in IAMInputs2 : ie = (1 :> d1) @@ (2 :> d2)
    /\ \E pol \in InitialPolicies : policies = ("p1" :> pol) @@ ("p2" :> <<>>)

\* The pipeline before its first step
PipelineStart ==
    /\ e = NewTask(input)
    /\ a = Unset
    /\ changes = EmptyASG
    /\ pending = <<>>
    /\ delFailed = FALSE
    /\ pass = 1
    /\ result = "none"
    /\ checkErr = NoError
    /\ log = <<>>
    /\ attempts = 0
    /\ renders = 0
    /\ firstResult = "none"
    /\ ia = [p \in Procs |-> Unset]
    /\ ichanges = [p \in Procs |-> EmptyIAM]
    /\ ipass = [p \in Procs |-> 1]
    /\ iresult = [p \in Procs |-> "none"]
    /\ icheckErr = [p \in Procs |-> NoError]
    /\ ifirst = [p \in Procs |-> "none"]
    /\ ilog = [p \in Procs |-> <<>>]
    /\ seen = [p \in Procs |-> <<>>]
    /\ local = [p \in Procs |-> <<>>]
    /\ mutex = [k \in MutexKeys |-> 0]

Init ==
    /\ (InitASG \/ InitIAM)
    /\ PipelineStart
    /\ declared = DeclaredDAG
    /\ rejects0 = cloud.iamRejects
    /\ EngineIdle

\* Normalize, run once before the diff
DoNormalize ==
    /\ pc = "normalize"
    /\ e' = [f \in DOMAIN e |->
               IF f = "deletions" THEN e.deletions
               ELSE AutoscalingGroupNormalize(DesiredOf(e))[f]]
    /\ pc' = "find"
    /\ log' = <<>>
    /\ UNCHANGED <<delFailed, kind, input, a, changes, pending, pass, result, checkErr,
                   cloud, attempts, renders, firstResult, iamVars, engVars>>

\* Find; a failed lookup is fatal for the task
DoFind ==
    /\ pc = "find"
    /\ \E fail \in BOOLEAN :
         LET r == AutoscalingGroupFind(e, Describe(cloud, fail))
         IN /\ e' = r.e
            /\ a' = r.actual
            /\ log' = [i \in 1..Len(r.calls) |-> [op |-> r.calls[i], ok |-> ~fail]]
            /\ IF r.err
               THEN /\ result' = "error"
                    /\ pc' = "deletions"
                    /\ pending' = FindDeletions(r.e)
               ELSE /\ pc' = "diff"
                    /\ UNCHANGED <<result, pending>>
    /\ UNCHANGED <<delFailed, kind, input, changes, pass, checkErr, cloud, attempts,
                   renders, firstResult, iamVars, engVars>>

\* The differ
DoDiff ==
    /\ pc = "diff"
    /\ changes' = BuildChanges(a, DesiredOf(e), EmptyASG)
    /\ pc' = "check"
    /\ log' = <<>>
    /\ UNCHANGED <<delFailed, kind, input, e, a, pending, pass, result, checkErr, cloud,
                   attempts, renders, firstResult, iamVars, engVars>>

\* CheckChanges, then Render only for a ChangeSet that is not empty
DoCheckChanges ==
    /\ pc = "check"
    /\ checkErr' = AutoscalingGroupCheckChanges(a, DesiredOf(e))
    /\ IF checkErr' # NoError
       THEN /\ result' = "error"
            /\ pc' = "deletions"
            /\ pending' = FindDeletions(e)
       ELSE IF Populated(changes, EmptyASG) = {}
       THEN /\ result' = "ok"
            /\ pc' = "deletions"
            /\ pending' = FindDeletions(e)
       ELSE /\ pc' = "render"
            /\ UNCHANGED <<result, pending>>
    /\ UNCHANGED <<delFailed, kind, input, e, a, changes, pass, cloud, log, attempts,
                   renders, firstResult, iamVars, engVars>>

\* One invocation of Render against the API target
DoRender ==
    /\ pc = "render"
    /\ \E fault \in Faults :
         LET r == RenderAWS(a, DesiredOf(e), changes, cloud, fault)
         IN /\ cloud' = r.cloud
            /\ changes' = r.changes
            /\ log' = r.log
            /\ result' = r.result
            /\ IF r.result = "TryAgainLater"
               THEN pc' = "retry" /\ UNCHANGED pending
               ELSE pc' = "deletions" /\ pending' = FindDeletions(e)
    /\ renders' = renders + 1
    /\ UNCHANGED <<delFailed, kind, input, e, a, pass, checkErr, attempts, firstResult,
                   iamVars, engVars>>

\* The engine's answer to TryAgainLater: Render again after a delay, with
\* the same actual, desired and changes, up to MaxAttempts invocations
DoRetry ==
    /\ pc = "retry"
    /\ IF renders < MaxAttempts
       THEN /\ pc' = "render"
            /\ attempts' = attempts + 1
            /\ UNCHANGED <<result, pending>>
       ELSE /\ pc' = "deletions"
            /\ result' = "error"
            /\ pending' = FindDeletions(e)
            /\ UNCHANGED attempts
    /\ UNCHANGED <<delFailed, kind, input, e, a, changes, pass, checkErr, cloud, log,
                   renders, firstResult, iamVars, engVars>>

\* One collected Deletion, run after the task is terminal; its failure is
\* reported and changes nothing else
DoDelete ==
    /\ pc = "deletions"
    /\ pending # <<>>
    /\ \E fault \in {"DetachLoadBalancerTargetGroups", "none"} :
         LET r == Delete(Head(pending), cloud, fault)
         IN /\ cloud' = r.cloud
            /\ log' = <<[op |-> "DetachLoadBalancerTargetGroups", ok |-> r.ok]>>
            /\ delFailed' = (delFailed \/ ~r.ok)
    /\ pending' = Tail(pending)
    /\ UNCHANGED <<kind, input, e, a, changes, pc, pass, result, checkErr,
                   attempts, renders, firstResult, iamVars, engVars>>

\* The pass is over
DoFinish ==
    /\ pc = "deletions"
    /\ pending = <<>>
    /\ pc' = "done"
    /\ UNCHANGED <<delFailed, kind, input, e, a, changes, pending, pass, result, checkErr,
                   cloud, log, attempts, renders, firstResult, iamVars, engVars>>

\* The next pass: the task is constructed anew from the same desired input
NextPass ==
    /\ pc = "done"
    /\ pass < MaxPasses
    /\ pass' = pass + 1
    /\ firstResult' = IF delFailed THEN "deletionFailed" ELSE result
    /\ delFailed' = FALSE
    /\ e' = NewTask(input)
    /\ a' = Unset
    /\ changes' = EmptyASG
    /\ pending' = <<>>
    /\ result' = "none"
    /\ checkErr' = NoError
    /\ log' = <<>>
    /\ attempts' = 0
    /\ renders' = 0
    /\ pc' = "normalize"
    /\ UNCHANGED <<kind, input, cloud, iamVars, engVars>>

-----------------------------------------------------------------------------
(* ProjectIAMBinding.RenderGCE, step by step: Lock, GetIamPolicy, then     *)
(* patchCRMPolicy and SetIamPolicy; the deferred Unlock runs at the return. *)

ProjectKey(d) == MutexForProjectIAM(ValueOf(d.Project, ""))

\* RenderGCE from its GetIamPolicy call to the check of its error:
\* [returned, result, policy, path]
RenderGCEGet(d, pols, fail) ==
    LET resp == GetIamPolicy(pols, ValueOf(d.Project, ""), fail)
    IN IF resp.err # "none"
       THEN [returned |-> TRUE, result |-> "error", policy |-> <<>>,
             path |-> "getError"]
       ELSE [returned |-> FALSE, result |-> "none", policy |-> resp.policy,
             path |-> "none"]

\* A RenderGCE that calls SetIamPolicy whether or not the patch changed the
\* policy
RenderGCESetAlways(d, policy, fail) ==
    LET r == patchCRMPolicy(policy, MemberOf(d), ValueOf(d.Role, ""))
    IN IF fail
       THEN [result |-> "error", set |-> TRUE, policy |-> r.policy,
             path |-> "setError"]
       ELSE [result |-> "ok", set |-> TRUE, policy |-> r.policy, path |-> "success"]

\* RenderGCE from patchCRMPolicy to its return: [result, set, policy, path],
\* set saying whether SetIamPolicy was called and policy what it was given
RenderGCESet(d, policy, fail) ==
    LET r == patchCRMPolicy(policy, MemberOf(d), ValueOf(d.Role, ""))
    IN IF ~r.changed
       THEN [result |-> "ok", set |-> FALSE, policy |-> policy, path |-> "noChange"]
       ELSE IF fail
       THEN [result |-> "error", set |-> TRUE, policy |-> r.policy,
             path |-> "setError"]
       ELSE [result |-> "ok", set |-> TRUE, policy |-> r.policy, path |-> "success"]

IFind(p) ==
    /\ ipc[p] = "find"
    /\ \E fail \in BOOLEAN :
         LET r == ProjectIAMBindingFind(ie[p], policies, fail)
         IN /\ ie' = [ie EXCEPT ![p] = r.e]
            /\ ia' = [ia EXCEPT ![p] = r.actual]
            /\ ilog' = [ilog EXCEPT ![p] =
                 [i \in 1..Len(r.calls) |-> [op |-> r.calls[i], ok |-> ~fail]]]
            /\ seen' = [seen EXCEPT ![p] =
                 GetIamPolicy(policies, ValueOf(ie[p].Project, ""), fail).policy]
            /\ IF r.result # "ok"
               THEN /\ iresult' = [iresult EXCEPT ![p] = r.result]
                    /\ ipc' = [ipc EXCEPT ![p] = "done"]
               ELSE /\ ipc' = [ipc EXCEPT ![p] = "diff"]
                    /\ UNCHANGED iresult
    /\ UNCHANGED <<engVars, kind, asgVars, ichanges, ipass, icheckErr, ifirst, local,
                   policies, mutex>>

IDiff(p) ==
    /\ ipc[p] = "diff"
    /\ ichanges' = [ichanges EXCEPT ![p] = BuildChanges(ia[p], ie[p], EmptyIAM)]
    /\ ipc' = [ipc EXCEPT ![p] = "check"]
    /\ ilog' = [ilog EXCEPT ![p] = <<>>]
    /\ UNCHANGED <<engVars, kind, asgVars, seen, ie, ia, ipass, iresult, icheckErr, ifirst,
                   local, policies, mutex>>

ICheckChanges(p) ==
    /\ ipc[p] = "check"
    /\ LET err == ProjectIAMBindingCheckChanges(ia[p], ie[p])
       IN /\ icheckErr' = [icheckErr EXCEPT ![p] = err]
          /\ IF err # NoError
             THEN /\ iresult' = [iresult EXCEPT ![p] = "error"]
                  /\ ipc' = [ipc EXCEPT ![p] = "done"]
             ELSE IF Populated(ichanges[p], EmptyIAM) = {}
             THEN /\ iresult' = [iresult EXCEPT ![p] = "ok"]
                  /\ ipc' = [ipc EXCEPT ![p] = "done"]
             ELSE /\ ipc' = [ipc EXCEPT ![p] = "render"]
                  /\ UNCHANGED iresult
    /\ UNCHANGED <<engVars, kind, asgVars, seen, ie, ia, ichanges, ipass, ifirst, ilog, local,
                   policies, mutex>>

\* localMutex.Lock()
ILock(p) ==
    /\ ipc[p] = "render"
    /\ LockFree(mutex, ProjectKey(ie[p]))
    /\ mutex' = [mutex EXCEPT ![ProjectKey(ie[p])] = p]
    /\ ipc' = [ipc EXCEPT ![p] = "get"]
    /\ ilog' = [ilog EXCEPT ![p] = <<>>]
    /\ UNCHANGED <<engVars, kind, asgVars, seen, ie, ia, ichanges, ipass, iresult, icheckErr,
                   ifirst, local, policies>>

\* GetIamPolicy
IGet(p) ==
    /\ ipc[p] = "get"
    /\ \E fail \in BOOLEAN :
         LET r == RenderGCEGet(ie[p], policies, fail)
         IN /\ ilog' = [ilog EXCEPT ![p] =
                  Append(@, [op |-> "GetIamPolicy", ok |-> ~r.returned])]
            /\ IF r.returned
               THEN /\ iresult' = [iresult EXCEPT ![p] = r.result]
                    /\ mutex' = UnlockOnReturn(mutex, ProjectKey(ie[p]), r.path)
                    /\ ipc' = [ipc EXCEPT ![p] = "done"]
                    /\ UNCHANGED local
               ELSE /\ local' = [local EXCEPT ![p] = r.policy]
                    /\ ipc' = [ipc EXCEPT ![p] = "patch"]
                    /\ UNCHANGED <<iresult, mutex>>
    /\ UNCHANGED <<engVars, kind, asgVars, seen, ie, ia, ichanges, ipass, icheckErr, ifirst,
                   policies>>

\* patchCRMPolicy, SetIamPolicy when the policy changed, return
ISet(p) ==
    /\ ipc[p] = "patch"
    /\ \E fail \in BOOLEAN :
         LET r == RenderGCESet(ie[p], local[p], fail)
         IN /\ ilog' = [ilog EXCEPT ![p] =
                  IF r.set
                  THEN Append(@, [op |-> "SetIamPolicy", ok |-> r.result = "ok"])
                  ELSE @]
            /\ policies' = IF r.set /\ r.result = "ok"
                           THEN [policies EXCEPT ![ValueOf(ie[p].Project, "")] = r.policy]
                           ELSE policies
            /\ iresult' = [iresult EXCEPT ![p] = r.result]
            /\ mutex' = UnlockOnReturn(mutex, ProjectKey(ie[p]), r.path)
    /\ ipc' = [ipc EXCEPT ![p] = "done"]
    /\ UNCHANGED <<engVars, kind, asgVars, seen, ie, ia, ichanges, ipass, icheckErr, ifirst,
                   local>>

INextPass(p) ==
    /\ ipc[p] = "done"
    /\ ipass[p] < MaxPasses
    /\ ipass' = [ipass EXCEPT ![p] = @ + 1]
    /\ ifirst' = [ifirst EXCEPT ![p] = iresult[p]]
    /\ ia' = [ia EXCEPT ![p] = Unset]
    /\ ichanges' = [ichanges EXCEPT ![p] = EmptyIAM]
    /\ iresult' = [iresult EXCEPT ![p] = "none"]
    /\ icheckErr' = [icheckErr EXCEPT ![p] = NoError]
    /\ ilog' = [ilog EXCEPT ![p] = <<>>]
    /\ local' = [local EXCEPT ![p] = <<>>]
    /\ seen' = [seen EXCEPT ![p] = <<>>]
    /\ ipc' = [ipc EXCEPT ![p] = "find"]
    /\ UNCHANGED <<engVars, kind, asgVars, ie, policies, mutex>>

Next ==
    \/ DoNormalize
    \/ DoFind
    \/ DoDiff
    \/ DoCheckChanges
    \/ DoRender
    \/ DoRetry
    \/ DoDelete
    \/ DoFinish
    \/ NextPass
    \/ \E p \in Procs : IFind(p)
    \/ \E p \in Procs : IDiff(p)
    \/ \E p \in Procs : ICheckChanges(p)
    \/ \E p \in Procs : ILock(p)
    \/ \E p \in Procs : IGet(p)
    \/ \E p \in Procs : ISet(p)
    \/ \E p \in Procs : INextPass(p)

Spec == Init /\ [][Next]_vars

-----------------------------------------------------------------------------
(* The dependency graph builder and the executor, over the tasks of Tasks. *)
(* The AutoscalingGroup's predecessors are what GetDependencies returns    *)
(* and its Render is RenderAWS with actual nil; the other tasks declare    *)
(* their predecessors and render with an outcome of their provider.        *)

\* The direct predecessors the builder collects for task t
DependenciesOf(t) ==
    IF t = ASGTask THEN Range(GetDependencies(input)) ELSE declared[t]

RECURSIVE Closure(_, _, _)
\* The tasks reached from the set S along deps in at most n more steps
Closure(deps, S, n) ==
    IF n = 0 THEN S
    ELSE LET T == S \cup UNION {deps[t] : t \in S}
         IN IF T = S THEN S ELSE Closure(deps, T, n - 1)

\* The transitive predecessors of t in deps
TransitiveDeps(deps, t) == Closure(deps, deps[t], Cardinality(DOMAIN deps))

\* The transitive dependents of t in deps
TransitiveDependents(deps, t) ==
    {u \in DOMAIN deps : t \in TransitiveDeps(deps, u)}

\* A builder that finds no cycle
NoCycleFound(deps) == {}

\* The tasks on a cycle of deps, found by the depth-first traversal
CycleTasks(deps) == {t \in DOMAIN deps : t \in TransitiveDeps(deps, t)}

\* The workers that are busy
Busy == {t \in Tasks : status[t] \in {"running", "rendering"}}

TerminalStatus == {"succeeded", "failed", "blocked"}

\* A fatal error of task t that leaves its dependents waiting
FailWithoutBlocking(st, t) == [st EXCEPT ![t] = "failed"]

\* A fatal error of task t: t failed, every transitive dependent is blocked
FailFatally(st, t) ==
    [u \in Tasks |->
        IF u = t THEN "failed"
        ELSE IF u \in TransitiveDependents(graph, t) THEN "blocked"
        ELSE st[u]]

\* Success of task t: the in-degree of each dependent is decremented
Succeed(t) ==
    /\ status' = [status EXCEPT ![t] = "succeeded"]
    /\ indeg' = [u \in Tasks |-> IF t \in graph[u] THEN indeg[u] - 1 ELSE indeg[u]]

\* Graph construction: the adjacency structure and the in-degrees, or the
\* cycle error
BuildGraph ==
    /\ kind \in {"engine", "terraform"}
    /\ built = "none"
    /\ LET deps == [t \in Tasks |-> DependenciesOf(t)]
           cyc == CycleTasks(deps)
       IN IF cyc # {}
          THEN /\ built' = "cycle"
               /\ cycleReport' = cyc
               /\ UNCHANGED <<graph, indeg>>
          ELSE /\ built' = "ok"
               /\ graph' = deps
               /\ indeg' = [t \in Tasks |-> Cardinality(deps[t])]
               /\ UNCHANGED cycleReport
    /\ UNCHANGED <<kind, asgVars, iamVars, declared, rejects0, status,
                   renderCount, delays, runVars>>

\* The primary tasks of the run are all terminal
PrimaryDone == \A t \in Tasks : status[t] \in TerminalStatus \cup {"absent"}

\* A free worker takes the AutoscalingGroup, ready, and runs Normalize,
\* Find and the differ; the Deletions Find surfaced are collected
DispatchASG ==
    /\ kind = "engine"
    /\ built = "ok"
    /\ status[ASGTask] = "pending"
    /\ indeg[ASGTask] = 0
    /\ Cardinality(Busy) < Workers
    /\ LET n == [f \in DOMAIN e |->
                   IF f = "deletions" THEN e.deletions
                   ELSE AutoscalingGroupNormalize(DesiredOf(e))[f]]
           r == AutoscalingGroupFind(n, Describe(cloud, FALSE))
       IN /\ e' = r.e
          /\ a' = r.actual
          /\ changes' = BuildChanges(r.actual, DesiredOf(r.e), EmptyASG)
          /\ pending' = FindDeletions(r.e)
    /\ status' = [status EXCEPT ![ASGTask] = "running"]
    /\ UNCHANGED <<kind, input, delFailed, pc, pass, result, checkErr, cloud,
                   log, attempts, renders, firstResult, iamVars, declared,
                   rejects0, built, cycleReport, graph, indeg, renderCount,
                   delays, runVars>>

\* A free worker takes a ready task and runs Normalize, Find, CheckChanges
Dispatch(t) ==
    /\ kind = "engine" => t # ASGTask
    /\ built = "ok"
    /\ status[t] = "pending"
    /\ indeg[t] = 0
    /\ Cardinality(Busy) < Workers
    /\ status' = [status EXCEPT ![t] = "running"]
    /\ UNCHANGED <<kind, asgVars, iamVars, declared, rejects0, built,
                   cycleReport, graph, indeg, renderCount, delays, runVars>>

\* The ChangeSet of a task other than the AutoscalingGroup is empty: the
\* task succeeds without Render
NoChange(t) ==
    /\ kind = "engine"
    /\ status[t] = "running"
    /\ t = ASGTask => Populated(changes, EmptyASG) = {}
    /\ Succeed(t)
    /\ UNCHANGED <<kind, asgVars, iamVars, declared, rejects0, built,
                   cycleReport, graph, renderCount, delays, runVars>>

\* Render starts
StartRender(t) ==
    /\ status[t] = "running"
    /\ t = IAMTask => ProjectIAMBindingCheckChanges(Unset, ie[1]) = NoError
    /\ (t = ASGTask /\ kind = "engine") => Populated(changes, EmptyASG) # {}
    /\ status' = [status EXCEPT ![t] = "rendering"]
    /\ renderCount' = [renderCount EXCEPT ![t] = @ + 1]
    /\ UNCHANGED <<kind, asgVars, iamVars, declared, rejects0, built,
                   cycleReport, graph, indeg, delays, runVars>>

\* What the engine does with the outcome of a Render of t
Outcome(t, res) ==
    IF res = "ok" THEN Succeed(t)
    ELSE IF res = "TryAgainLater" /\ renderCount[t] < MaxAttempts
    THEN status' = [status EXCEPT ![t] = "backoff"] /\ UNCHANGED indeg
    ELSE status' = FailFatally(status, t) /\ UNCHANGED indeg

\* Render of the AutoscalingGroup returns
FinishRenderASG ==
    /\ kind = "engine"
    /\ status[ASGTask] = "rendering"
    /\ LET r == RenderAWS(a, DesiredOf(e), changes, cloud, "none")
       IN /\ cloud' = r.cloud
          /\ changes' = r.changes
          /\ Outcome(ASGTask, r.result)
    /\ UNCHANGED <<kind, input, e, a, pending, delFailed, pc, pass,
                   result, checkErr, log, attempts, renders, firstResult,
                   iamVars, declared, rejects0, built, cycleReport, graph,
                   renderCount, delays, runVars>>

\* Render of another task returns: success, or an error. On the Terraform
\* target a successful Render has written the task's resource record.
FinishRender(t) ==
    /\ status[t] = "rendering"
    /\ t \notin {ASGTask, IAMTask}
    /\ \E res \in {"ok", "error"} :
          /\ Outcome(t, res)
          /\ tfTarget' = IF kind = "terraform" /\ res = "ok"
                         THEN RenderResource(tfTarget, t[1], t[2])
                         ELSE tfTarget
    /\ UNCHANGED <<kind, asgVars, iamVars, declared, rejects0, built,
                   cycleReport, graph, renderCount, delays, phase,
                   passOutcome>>

\* The backoff delay is over: Render is invoked again
Retry(t) ==
    /\ status[t] = "backoff"
    /\ status' = [status EXCEPT ![t] = "rendering"]
    /\ delays' = [delays EXCEPT ![t] = @ + 1]
    /\ renderCount' = [renderCount EXCEPT ![t] = @ + 1]
    /\ UNCHANGED <<kind, asgVars, iamVars, declared, rejects0, built,
                   cycleReport, graph, indeg, runVars>>

\* Every primary task is terminal: the second pass, over the collected
\* Deletions, starts
StartDeletions ==
    /\ kind = "engine"
    /\ built = "ok"
    /\ phase = "primary"
    /\ PrimaryDone
    /\ phase' = "deletions"
    /\ UNCHANGED <<kind, asgVars, iamVars, declared, rejects0, built,
                   cycleReport, graph, indeg, status, renderCount, delays,
                   tfTarget, passOutcome>>

\* The i-th collected Deletion runs, in no particular order; a Deletion that
\* asks to be deferred runs in the second pass only. Its failure is reported
\* and changes nothing else.
RunDeletion(i) ==
    /\ kind = "engine"
    /\ i \in 1..Len(pending)
    /\ IF DeferDeletion(pending[i]) THEN phase = "deletions"
       ELSE phase \in {"primary", "deletions"}
    /\ \E fault \in {"DetachLoadBalancerTargetGroups", "none"} :
         LET r == Delete(pending[i], cloud, fault)
         IN /\ cloud' = r.cloud
            /\ delFailed' = (delFailed \/ ~r.ok)
    /\ pending' = [j \in 1..(Len(pending) - 1) |->
                      IF j < i THEN pending[j] ELSE pending[j + 1]]
    /\ UNCHANGED <<kind, input, e, a, changes, pc, pass, result, checkErr,
                   log, attempts, renders, firstResult, iamVars, declared,
                   rejects0, built, cycleReport, graph, indeg, status,
                   renderCount, delays, runVars>>

\* An outcome that counts the blocked tasks only
OutcomeOfBlockedOnly(st) ==
    IF \E t \in Tasks : st[t] = "blocked" THEN "failed" ELSE "succeeded"

\* The outcome of the pass: failed when a primary task failed or is blocked
OutcomeOfPass(st) ==
    IF \E t \in Tasks : st[t] \in {"failed", "blocked"} THEN "failed"
    ELSE "succeeded"

\* The Deletions have run: the pass reports its outcome
CompletePass ==
    /\ kind = "engine"
    /\ phase = "deletions"
    /\ pending = <<>>
    /\ phase' = "done"
    /\ passOutcome' = OutcomeOfPass(status)
    /\ UNCHANGED <<kind, asgVars, iamVars, declared, rejects0, built,
                   cycleReport, graph, indeg, status, renderCount, delays,
                   tfTarget>>

\* CheckChanges rejects the ProjectIAMBinding: the task fails before Render
CheckChangesFails ==
    /\ kind = "terraform"
    /\ status[IAMTask] = "running"
    /\ ProjectIAMBindingCheckChanges(Unset, ie[1]) # NoError
    /\ status' = FailFatally(status, IAMTask)
    /\ UNCHANGED <<kind, asgVars, iamVars, declared, rejects0, built,
                   cycleReport, graph, indeg, renderCount, delays, runVars>>

\* RenderTerraform of the AutoscalingGroup returns: the actual state is
\* absent, the task is the normalized desired state
FinishRenderTerraformASG ==
    /\ kind = "terraform"
    /\ status[ASGTask] = "rendering"
    /\ LET d == AutoscalingGroupNormalize(input)
       IN \E order \in Orders(DOMAIN d.Tags) :
             LET r == AutoscalingGroupRenderTerraform(tfTarget, d, order)
             IN /\ tfTarget' = r.t
                /\ log' = r.calls
                /\ Outcome(ASGTask, r.result)
    /\ UNCHANGED <<kind, input, e, a, changes, pending, delFailed, pc, pass,
                   result, checkErr, cloud, attempts, renders, firstResult,
                   iamVars, declared, rejects0, built, cycleReport, graph,
                   renderCount, delays, phase, passOutcome>>

\* RenderTerraform of the ProjectIAMBinding returns
FinishRenderTerraformIAM ==
    /\ kind = "terraform"
    /\ status[IAMTask] = "rendering"
    /\ LET r == ProjectIAMBindingRenderTerraform(tfTarget, ie[1])
       IN /\ tfTarget' = r.t
          /\ ilog' = [ilog EXCEPT ![1] = r.calls]
          /\ Outcome(IAMTask, r.result)
    /\ UNCHANGED <<kind, asgVars, ie, ia, ichanges, ipc, ipass, iresult,
                   icheckErr, ifirst, local, seen, policies, mutex, declared,
                   rejects0, built, cycleReport, graph, renderCount, delays,
                   phase, passOutcome>>

\* The groups the cloud may hold before the pass of the executor: of the
\* desired subnet, with a target group nothing desires, and the same with
\* another minimum size
EngineGroups ==
    LET g == [BaseGroup EXCEPT !.VPCZoneIdentifier = Some(<<1>>),
                               !.TargetGroupARNs = <<2, 1>>]
    IN {g, [g EXCEPT !.MinSize = Some(2)]}

InitEngine ==
    /\ kind = "engine"
    /\ input \in EngineInputs
    /\ rejects0 \in 0..MaxRejects
    /\ \E g \in {Unset} \cup {Some(x) : x \in EngineGroups} :
          /\ cloud = [group |-> g, iamRejects |-> rejects0]
          /\ g # Unset => rejects0 = 0
    /\ declared \in {DeclaredDAG, DeclaredCycle, DeclaredCycleASG,
                      DeclaredDependent}
    /\ pc = "off"
    /\ ipc = [p \in Procs |-> "off"]
    /\ ie = [p \in Procs |-> EmptyIAM]
    /\ policies = [p \in Projects |-> <<>>]
    /\ PipelineStart
    /\ EngineIdle

NextEngine ==
    \/ BuildGraph
    \/ DispatchASG
    \/ \E t \in Tasks : Dispatch(t)
    \/ \E t \in Tasks : NoChange(t)
    \/ \E t \in Tasks : StartRender(t)
    \/ FinishRenderASG
    \/ \E t \in Tasks : FinishRender(t)
    \/ \E t \in Tasks : Retry(t)
    \/ StartDeletions
    \/ \E i \in 1..Len(pending) : RunDeletion(i)
    \/ CompletePass

SpecEngine == InitEngine /\ [][NextEngine]_vars

\* The role tags of the desired AutoscalingGroups rendered to Terraform
RoleTag(role) == <<CloudTagInstanceGroupRolePrefix, role>> :> "1"

\* The desired AutoscalingGroups rendered to Terraform: one role, one role
\* under its two names, two roles, no role, a mixed instances policy, and
\* no launch template
TerraformInputs ==
    LET base == [BaseDesired EXCEPT !.Subnets = <<1>>]
    IN {base,
        [base EXCEPT !.Tags = RoleTag("master")],
        [base EXCEPT !.Tags = RoleTag("control-plane")],
        [base EXCEPT !.Tags = RoleTag("control-plane") @@ RoleTag("master")],
        [base EXCEPT !.Tags = RoleTag("node") @@ RoleTag("master")],
        [base EXCEPT !.Tags = EmptyMap],
        [base EXCEPT !.MixedOnDemandBase = Some(1)],
        [base EXCEPT !.LaunchTemplate = Unset]}

\* The desired ProjectIAMBindings rendered to Terraform
TerraformIAMInputs ==
    {IAMBinding(Some("p1"), Some([Email |-> Some("a")]), Some("r1")),
     IAMBinding(Some("p1"), Some([Email |-> Some("a")]), Unset)}

InitTerraform ==
    /\ kind = "terraform"
    /\ input \in TerraformInputs
    /\ rejects0 = 0
    /\ cloud = [group |-> Unset, iamRejects |-> 0]
    /\ declared = DeclaredDAG
    /\ pc = "off"
    /\ ipc = [p \in Procs |-> "off"]
    /\ \E d \in TerraformIAMInputs : ie = (1 :> d) @@ (2 :> EmptyIAM)
    /\ policies = [p \in Projects |-> <<>>]
    /\ PipelineStart
    /\ EngineIdle

NextTerraform ==
    \/ BuildGraph
    \/ \E t \in Tasks : Dispatch(t)
    \/ \E t \in Tasks : StartRender(t)
    \/ CheckChangesFails
    \/ FinishRenderTerraformASG
    \/ FinishRenderTerraformIAM
    \/ \E t \in Tasks : FinishRender(t)

SpecTerraform == InitTerraform /\ [][NextTerraform]_vars

-----------------------------------------------------------------------------
(* Properties of the per-task pipeline (specification Spec) *)

\* The pass of the AutoscalingGroup is over
Terminal == pc \in {"deletions", "done"}

\* The provider operations that change nothing
ReadOnlyOps == {"DescribeAutoScalingGroups", "GetIamPolicy"}

\* The required fields of a ProjectIAMBinding that d leaves unset
MissingIAM(d) ==
    (IF ValueOf(d.Project, "") = "" THEN {"Project"} ELSE {})
    \cup (IF d.MemberServiceAccount = Unset THEN {"MemberServiceAccount"}
          ELSE IF ValueOf(d.MemberServiceAccount[1].Email, "") = ""
          THEN {"MemberServiceAccount.Email"} ELSE {})
    \cup (IF ValueOf(d.Role, "") = "" THEN {"Role"} ELSE {})

\* Task p is inside RenderGCE's critical section: it holds the lock and has
\* not returned
InCritical(p) == ipc[p] \in {"get", "patch"}

\* C1: idempotence.  In the pass that follows a successful pass over the
\* same desired task, with the cloud changed by nobody else, the ChangeSet
\* the differ computes is empty, for the AutoscalingGroup and for a
\* ProjectIAMBinding.
C1_SecondPassChangeSetEmpty ==
    /\ (kind = "asg" /\ pass > 1 /\ firstResult = "ok" /\ pc = "check")
          => Populated(changes, EmptyASG) = {}
    /\ \A p \in Procs :
         (ipass[p] > 1 /\ ifirst[p] = "ok" /\ ipc[p] = "check")
          => Populated(ichanges[p], EmptyIAM) = {}

\* C4: required-field validation.  When actual is nil and a required field
\* of the desired task is unset, CheckChanges returns RequiredField naming
\* that field and the task does not go on to Render.
C4_RequiredFieldBeforeRender ==
    [][/\ (pc = "check" /\ a = Unset /\ e.Name = Unset)
            => (checkErr' = RequiredField("Name") /\ pc' # "render")
       /\ \A p \in Procs :
            (ipc[p] = "check" /\ ipc'[p] # "check" /\ ia[p] = Unset)
            => \A f \in MissingIAM(ie[p]) :
                  MissingIAM(ie[p]) = {f}
                  => (icheckErr'[p] = RequiredField(f) /\ ipc'[p] # "render")]_vars

\* C7: keyed lock.  Two RenderGCE calls on the same project are never both
\* between Lock and return; the task inside the critical section holds its
\* project's mutex, and the mutex is held by nobody once the call returned,
\* whichever way it returned.
C7_KeyedLock ==
    /\ \A p, q \in Procs :
         (p # q /\ InCritical(p) /\ InCritical(q))
         => ProjectKey(ie[p]) # ProjectKey(ie[q])
    /\ \A p \in Procs : InCritical(p) => mutex[ProjectKey(ie[p])] = p
    /\ \A k \in MutexKeys :
         mutex[k] # 0 => (InCritical(mutex[k]) /\ ProjectKey(ie[mutex[k]]) = k)

\* One task has been through RenderGCE (it wrote the policy and returned)
\* and the other, bound to the same project, is inside it now.
C7_Witness ==
    \E p, q \in Procs :
       /\ p # q
       /\ ProjectKey(ie[p]) = ProjectKey(ie[q])
       /\ ipc[p] = "done" /\ Len(ilog[p]) = 2 /\ ilog[p][2].op = "SetIamPolicy"
       /\ ipc[q] = "patch"

\* C8: ChangeSet clearing.  When Render has returned success, every field
\* of the ChangeSet is empty.
C8_ChangeSetEmptyAfterRender ==
    /\ (kind = "asg" /\ Terminal /\ renders > 0 /\ result = "ok")
          => Populated(changes, EmptyASG) = {}
    /\ \A p \in Procs :
         (ipc[p] = "done" /\ iresult[p] = "ok" /\ local[p] # <<>>)
          => Populated(ichanges[p], EmptyIAM) = {}

\* C9: Find is read-only.  A step of Find leaves every desired attribute of
\* its task as it was, leaves the cloud as it was, and issues only read
\* calls, whether it finds the resource, finds nothing or fails.
C9_FindFrame ==
    [][/\ pc = "find"
            => /\ DesiredOf(e') = DesiredOf(e)
               /\ cloud' = cloud
               /\ \A i \in 1..Len(log') : log'[i].op \in ReadOnlyOps
       /\ \A p \in Procs :
            (ipc[p] = "find" /\ ipc'[p] # "find")
            => /\ ie'[p] = ie[p]
               /\ policies' = policies
               /\ \A i \in 1..Len(ilog'[p]) : ilog'[p][i].op \in ReadOnlyOps]_vars

\* Find found the group and collected a deletion for a stale attachment.
C9_Witness ==
    kind = "asg" /\ pc = "diff" /\ a # Unset /\ e.deletions # <<>>

\* C10: Render is re-invocable after TryAgainLater.  An invocation of
\* RenderAWS that returns TryAgainLater was a create (actual nil) whose
\* only call is the rejected CreateAutoScalingGroup: the group still does
\* not exist, the task and the ChangeSet are as they were, and the same
\* invocation creates the group once the provider accepts the profile.
C10_TryAgainLaterLeavesNothing ==
    [][(pc = "render" /\ result' = "TryAgainLater")
         => /\ a = Unset /\ a' = a /\ e' = e /\ changes' = changes
            /\ cloud.group = Unset /\ cloud'.group = Unset
            /\ log' = <<[op |-> "CreateAutoScalingGroup", ok |-> FALSE]>>
            /\ LET r == RenderAWS(a', DesiredOf(e'), changes',
                                  [cloud' EXCEPT !.iamRejects = 0], "none")
               IN r.cloud.group # Unset /\ r.log[1].ok]_vars

\* Render returned TryAgainLater, was invoked again and created the group.
C10_Witness ==
    /\ kind = "asg" /\ Terminal /\ attempts > 0 /\ result = "ok"
    /\ a = Unset /\ cloud.group # Unset

-----------------------------------------------------------------------------
(* Properties of the executor (specification SpecEngine) *)

\* The tasks t holds a reference to: for the AutoscalingGroup its load
\* balancers, target groups, subnets and launch template, for another task
\* what it declares
References(t) ==
    IF t = ASGTask
    THEN {<<"LoadBalancer", x>> : x \in Range(input.LoadBalancers)}
         \cup {<<"TargetGroup", x>> : x \in Range(input.TargetGroups)}
         \cup {<<"Subnet", x>> : x \in Range(input.Subnets)}
         \cup {<<"LaunchTemplate", x>> : x \in Range(input.LaunchTemplate)}
    ELSE declared[t]

RefGraph == [t \in Tasks |-> References(t)]

\* C2: dependency ordering.  Once a Render of task B has started, every
\* transitive dependency A of B has succeeded: its Render is over, not in
\* flight and not waiting for a retry.
C2_DependencyOrdering ==
    \A B \in Tasks : \A A \in TransitiveDeps(RefGraph, B) :
        renderCount[B] > 0 => status[A] = "succeeded"

\* The AutoscalingGroup is rendering after its load balancer, target group,
\* subnet and launch template, and the VPC behind them, were rendered.
C2_Witness ==
    /\ status[ASGTask] = "rendering"
    /\ Cardinality(References(ASGTask)) = 4
    /\ \A A \in TransitiveDeps(RefGraph, ASGTask) :
          status[A] = "succeeded" /\ renderCount[A] = 1

\* C3: partial-failure isolation.  Every transitive dependent of a failed
\* task is blocked and has had no Render; and a task is blocked only
\* behind a failed task, so a task with no dependency path from a failed
\* one is dispatched and rendered as usual.
C3_FailureIsolation ==
    /\ \A A \in Tasks : \A B \in TransitiveDependents(RefGraph, A) :
          status[A] = "failed" => (status[B] = "blocked" /\ renderCount[B] = 0)
    /\ \A C \in Tasks :
          status[C] = "blocked"
          => \E A \in TransitiveDeps(RefGraph, C) : status[A] = "failed"

\* The VPC failed, the subnet and the AutoscalingGroup are blocked, and the
\* launch template, which does not depend on the VPC, was rendered and
\* succeeded.
C3_Witness ==
    /\ status[VPCTask] = "failed"
    /\ status[SubnetTask] = "blocked" /\ status[ASGTask] = "blocked"
    /\ status[<<"LaunchTemplate", "lt-1">>] = "succeeded"
    /\ renderCount[<<"LaunchTemplate", "lt-1">>] = 1

\* C5: retry and backoff.  When the provider rejects the create of the
\* AutoscalingGroup twice because the instance profile is not visible yet
\* and accepts it then, the task ends succeeded after exactly two retry
\* delays and three Render invocations.
C5_TwoRetriesThenSuccess ==
    (kind = "engine" /\ rejects0 = 2
     /\ status[ASGTask] \in {"succeeded", "failed"})
    => /\ status[ASGTask] = "succeeded"
       /\ delays[ASGTask] = 2
       /\ renderCount[ASGTask] = 3

\* The AutoscalingGroup succeeded at its third Render.
C5_Witness ==
    /\ rejects0 = 2 /\ status[ASGTask] = "succeeded"
    /\ renderCount[ASGTask] = 3 /\ cloud.group # Unset

\* C6: cycle detection.  When two tasks refer to each other, graph
\* construction ends with the cycle error, the error names both, and no
\* task is ever dispatched or rendered.
C6_CycleRejected ==
    \A t, u \in Tasks :
        (built # "none" /\ t # u /\ u \in References(t) /\ t \in References(u))
        => /\ built = "cycle"
           /\ {t, u} \subseteq cycleReport
           /\ \A x \in Tasks :
                 status[x] \in {"pending", "absent"} /\ renderCount[x] = 0

\* Graph construction failed on the cycle of the VPC and its subnet.
C6_Witness ==
    built = "cycle" /\ cycleReport = {VPCTask, SubnetTask}

-----------------------------------------------------------------------------
(* Properties of the run on the Terraform target.                          *)

\* The resource type RenderTerraform of task t writes
ResourceTypeOf(t) ==
    IF t = ASGTask THEN "aws_autoscaling_group"
    ELSE IF t = IAMTask THEN "google_project_iam_binding"
    ELSE t[1]

\* The positions of the resource records of task t in the document
RecordsOf(t) ==
    {i \in 1..Len(tfTarget.resources) :
        tfTarget.resources[i] = <<ResourceTypeOf(t), t[2]>>}

\* Every task is in a terminal state
AllTerminal == \A t \in Tasks : status[t] \in TerminalStatus

\* Task t has exactly one record, after the records of its dependencies
OneRecordAfterDependencies(t) ==
    /\ Cardinality(RecordsOf(t)) = 1
    /\ \A u \in TransitiveDeps(RefGraph, t) :
          \A i \in RecordsOf(t) : \E j \in RecordsOf(u) : j < i

\* C11: Terraform target.  Rendering to Terraform calls no provider: the
\* AWS group, the IAM policies and the call logs stay as they were.  In a
\* pass each task whose Render succeeded has exactly one resource record
\* (type and task name) in the document, placed after the records of all
\* its dependencies; a task whose CheckChanges or Render returned an error,
\* or that is blocked or not yet rendered, has none.
C11_TerraformRecords ==
    kind = "terraform" =>
        /\ cloud = [group |-> Unset, iamRejects |-> 0]
        /\ policies = [p \in Projects |-> <<>>]
        /\ log = <<>> /\ ilog[1] = <<>>
        /\ \A t \in Tasks :
              IF status[t] = "succeeded"
              THEN OneRecordAfterDependencies(t)
              ELSE RecordsOf(t) = {}

\* The pass is over, the AutoscalingGroup and the ProjectIAMBinding both
\* rendered, and the document holds the seven records.
C11_Witness ==
    /\ kind = "terraform" /\ AllTerminal
    /\ status[ASGTask] = "succeeded" /\ status[IAMTask] = "succeeded"
    /\ Len(tfTarget.resources) = Cardinality(Tasks)
    /\ TransitiveDeps(RefGraph, ASGTask) # {}

\* C11 as stated: over a pass in which every other task succeeded, the
\* AutoscalingGroup contributes exactly one record, after its dependencies.
C11_EveryTaskOneRecord ==
    (/\ kind = "terraform" /\ AllTerminal
     /\ \A t \in Tasks \ {ASGTask} : status[t] = "succeeded")
    => \A t \in Tasks : OneRecordAfterDependencies(t)

-----------------------------------------------------------------------------
(* Properties of the second pass and of the outcome of a pass.             *)

\* C12: deletions run last.  A step that executes a collected Deletion (the
\* list of Deletions still to run gets shorter) is taken only when every
\* primary task is in a terminal state, and leaves every task's state as it
\* was.
C12_DeletionsRunLast ==
    [][(kind = "engine" /\ Len(pending') < Len(pending))
        => (PrimaryDone /\ status' = status)]_vars

\* The pass is over: Find surfaced two detachments, both ran and succeeded,
\* and the stale target group is no longer attached.
C12_Witness ==
    /\ kind = "engine" /\ phase = "done"
    /\ Len(e.deletions) = 2 /\ pending = <<>> /\ ~delFailed
    /\ cloud.group # Unset
    /\ 2 \notin Range(cloud.group[1].TargetGroupARNs)

\* The executor over the acyclic graph under fair scheduling: a worker that
\* can take a step, the retry timer and the second pass are not postponed
\* forever
InitEngineFair ==
    /\ InitEngine
    /\ declared = DeclaredDAG
    /\ input = [BaseDesired EXCEPT !.Subnets = <<1>>, !.TargetGroups = <<>>]
    /\ rejects0 \in {0, MaxRejects}
    /\ (cloud.group = Unset) = (rejects0 = MaxRejects)
    /\ cloud.group # Unset => cloud.group[1].MinSize = Some(2)

SpecEngineFair == InitEngineFair /\ [][NextEngine]_vars /\ WF_vars(NextEngine)

\* C13: pass completion.  From the start of a pass over an acyclic graph,
\* whatever the tasks' Renders and the Deletions return, the pass eventually
\* completes, and from then on every task of the run stays in one of the
\* terminal states succeeded, failed, blocked.
C13_PassCompletes ==
    (kind = "engine" /\ built = "none" /\ CycleTasks(RefGraph) = {})
        ~> [](phase = "done" /\ PrimaryDone)

\* A completed pass with a failed task, a blocked dependent, and a task of
\* another branch that succeeded.
C13_Witness ==
    /\ kind = "engine" /\ phase = "done" /\ PrimaryDone
    /\ status[VPCTask] = "failed" /\ status[ASGTask] = "blocked"
    /\ status[<<"LaunchTemplate", "lt-1">>] = "succeeded"

\* The AutoscalingGroup is created against a provider that rejects at least
\* MaxAttempts creates: every Render of the pass returns TryAgainLater
KeepsTryingAgain == kind = "engine" /\ rejects0 >= MaxAttempts

\* C14: retry exhaustion.  A task is rendered at most MaxAttempts times in a
\* pass, with at most MaxAttempts - 1 retry delays.  When every Render of
\* the AutoscalingGroup returns TryAgainLater, the task ends failed after
\* exactly MaxAttempts Renders, every transitive dependent of it is blocked,
\* and no other task is affected: a blocked task always has a failed task
\* among its transitive dependencies.
C14_RetryExhaustion ==
    kind = "engine" =>
        /\ \A t \in Tasks :
              /\ renderCount[t] <= MaxAttempts
              /\ delays[t] <= MaxAttempts - 1
        /\ (KeepsTryingAgain /\ status[ASGTask] \in {"succeeded", "failed"})
           => /\ status[ASGTask] = "failed"
              /\ renderCount[ASGTask] = MaxAttempts
              /\ delays[ASGTask] = MaxAttempts - 1
              /\ cloud.group = Unset
              /\ \A u \in TransitiveDependents(RefGraph, ASGTask) :
                    status[u] = "blocked"
        /\ \A u \in Tasks :
              status[u] = "blocked"
              => \E t \in TransitiveDeps(RefGraph, u) : status[t] = "failed"

\* The pass is over: the AutoscalingGroup failed after MaxAttempts Renders,
\* the load balancer that depends on it is blocked, and every other task
\* succeeded.
C14_Witness ==
    /\ KeepsTryingAgain /\ phase = "done"
    /\ status[ASGTask] = "failed" /\ renderCount[ASGTask] = MaxAttempts
    /\ TransitiveDependents(RefGraph, ASGTask) = {<<"LoadBalancer", 1>>}
    /\ \A t \in Tasks \ {ASGTask, <<"LoadBalancer", 1>>, IAMTask} :
          status[t] = "succeeded"

\* C15: outcome of a pass.  A completed pass reports failed exactly when
\* some primary task ended failed or blocked, whether or not a Deletion
\* failed.  A failing Deletion is reported and changes neither the provider
\* nor any task's state, and nothing applied is rolled back: a task that
\* succeeded stays succeeded and a group the provider holds stays.
C15_PassOutcome ==
    /\ [](kind = "engine" =>
            IF phase = "done"
            THEN passOutcome = "failed"
                 <=> \E t \in Tasks : status[t] \in {"failed", "blocked"}
            ELSE passOutcome = "none")
    /\ [][kind = "engine" =>
            /\ (~delFailed /\ delFailed')
               => /\ Len(pending') < Len(pending)
                  /\ cloud' = cloud /\ status' = status
            /\ \A t \in Tasks :
                  status[t] = "succeeded" => status'[t] = "succeeded"
            /\ cloud.group # Unset => cloud'.group # Unset]_vars

\* A pass that reports success although its Deletion failed: the stale
\* target group is still attached.
C15_Witness ==
    /\ kind = "engine" /\ phase = "done" /\ passOutcome = "succeeded"
    /\ delFailed
    /\ cloud.group # Unset /\ 2 \in Range(cloud.group[1].TargetGroupARNs)

-----------------------------------------------------------------------------
(* Properties of Find, Normalize and Render of the two tasks.              *)

\* The provider holds a group of that name that is not being deleted
LiveGroup(c, name) ==
    /\ c.group # Unset
    /\ c.group[1].Status = Unset
    /\ c.group[1].AutoScalingGroupName = name

\* The policy has an unconditional binding of the role that lists the member
Grants(policy, member, role) ==
    \E i \in 1..Len(policy) :
        /\ ~policy[i].Condition
        /\ policy[i].Role = role
        /\ member \in Range(policy[i].Members)

\* The policy of the project exists and grants the role of the desired
\* binding d to its member
GrantedIn(pols, d) ==
    /\ ValueOf(d.Project, "") \in DOMAIN pols
    /\ Grants(pols[ValueOf(d.Project, "")], MemberOf(d), ValueOf(d.Role, ""))

Holds(pol, d) == Grants(pol, MemberOf(d), ValueOf(d.Role, ""))

DetachmentsOf(ds, arn) == {i \in 1..Len(ds) : ds[i].targetGroupARN = arn}

NoRepetition(l) == Len(l) = Cardinality(Range(l))

\* The group g holds the subnets and the enabled metrics the task t desires,
\* each list in any order
SameSubnetsAndMetrics(t, g) ==
    LET listed == IF g.VPCZoneIdentifier # Unset
                  THEN Split(g.VPCZoneIdentifier[1]) ELSE <<>>
        enabled == [i \in 1..Len(g.EnabledMetrics) |-> g.EnabledMetrics[i].Metric]
    IN /\ Range(listed) = Range(t.Subnets)
       /\ Range(enabled) = Range(t.Metrics)
       /\ NoRepetition(listed) /\ NoRepetition(t.Subnets)
       /\ NoRepetition(enabled) /\ NoRepetition(t.Metrics)

\* C19: order-insensitive comparison.  When the group of the provider holds
\* the subnets and the enabled metrics the task desires, in whatever order
\* the task and the provider list them, then after Normalize, Find and the
\* differ the actual Subnets and Metrics are the desired ones and neither
\* field is in the ChangeSet.
C19_OrderInsensitive ==
    (/\ kind = "asg" /\ pc = "check" /\ a # Unset
     /\ SameSubnetsAndMetrics(input, cloud.group[1]))
    => /\ a[1].Subnets = e.Subnets
       /\ a[1].Metrics = e.Metrics
       /\ e.Subnets = input.Subnets
       /\ Range(e.Metrics) = Range(input.Metrics)
       /\ {"Subnets", "Metrics"} \cap Populated(changes, EmptyASG) = {}

\* The task lists its subnets in one order and the provider in the other:
\* the differ saw no change of the subnets.
C19_Witness ==
    /\ kind = "asg" /\ pc = "check" /\ a # Unset
    /\ input.Subnets = <<2, 1>>
    /\ cloud.group[1].VPCZoneIdentifier = Some(<<1, Comma, 2>>)
    /\ SameSubnetsAndMetrics(input, cloud.group[1])
    /\ "Subnets" \notin Populated(changes, EmptyASG)

-----------------------------------------------------------------------------
(* Properties of the output variables of the Terraform target.             *)

\* The roles the tags of the task d name, control-plane being master
RolesOf(d) ==
    {IF k[2] = "control-plane" THEN "master" ELSE k[2] :
        k \in {x \in DOMAIN d.Tags : HasPrefix(x, CloudTagInstanceGroupRolePrefix)}}

\* The literals registered under the output variable key
RegisteredUnder(key) ==
    SelectSeq(tfTarget.outputs, LAMBDA o : o[1] = key)

-----------------------------------------------------------------------------
(* Properties of the ProjectIAMBinding's policy patch.                     *)

\* RenderGCE of task p ran in the current pass and returned success
RenderedOK(p) ==
    /\ ipc[p] = "done" /\ iresult[p] = "ok"
    /\ ilog[p] # <<>> /\ ilog[p][1] = [op |-> "GetIamPolicy", ok |-> TRUE]

\* C21: no lost update.  When two RenderGCE calls on the same project that
\* want different (member, role) pairs have both returned success, however
\* their steps interleaved, the policy of the project grants both pairs.
C21_NoLostUpdate ==
    \A p, q \in Procs :
       (/\ kind = "iam" /\ p # q
        /\ ValueOf(ie[p].Project, "") = ValueOf(ie[q].Project, "")
        /\ RenderedOK(p) /\ RenderedOK(q)
        /\ <<MemberOf(ie[p]), ie[p].Role>> # <<MemberOf(ie[q]), ie[q].Role>>)
       => /\ GrantedIn(policies, ie[p])
          /\ GrantedIn(policies, ie[q])

\* Both tasks, on project p1 and wanting different pairs, went through
\* RenderGCE in this pass and each called SetIamPolicy with success.
C21_Witness ==
    /\ kind = "iam"
    /\ ie[1].Project = ie[2].Project
    /\ \A p \in Procs :
          /\ RenderedOK(p)
          /\ ilog[p] = <<[op |-> "GetIamPolicy", ok |-> TRUE],
                         [op |-> "SetIamPolicy", ok |-> TRUE]>>
          /\ GrantedIn(policies, ie[p])
    /\ <<MemberOf(ie[1]), ie[1].Role>> # <<MemberOf(ie[2]), ie[2].Role>>


\* C22: Find reports what the policy grants.  When ProjectIAMBinding.Find
\* fetched the policy of the project, it returns a non-nil actual if and
\* only if that policy has an unconditional binding of the wanted role that
\* lists the wanted member, whatever the policy: several bindings of one
\* role and conditional bindings included.
C22_FindReportsGrant ==
    [][\A p \in Procs :
          (/\ kind = "iam" /\ ipc[p] = "find" /\ ipc'[p] = "diff"
           /\ ValueOf(ie[p].Project, "") \in DOMAIN policies)
          => (ia'[p] # Unset <=> GrantedIn(policies, ie[p]))]_vars


\* The members and the roles a patch is asked for
PatchMembers == {<<"serviceAccount:", m>> : m \in {"a", "b", "c"}}

PatchRoles == {"r1", "r2"}

\* The policies at hand: the one each project holds and the one each
\* RenderGCE read
PoliciesAtHand ==
    {policies[k] : k \in DOMAIN policies} \cup {local[p] : p \in Procs}

\* new is old with at most one addition: member m appended to one binding,
\* or the unconditional binding of role r to m appended to the policy
AddsAtMostOne(old, new, m, r) ==
    /\ Len(new) \in {Len(old), Len(old) + 1}
    /\ \A i \in 1..Len(old) :
          /\ new[i].Role = old[i].Role
          /\ new[i].Condition = old[i].Condition
          /\ new[i].Members \in {old[i].Members, Append(old[i].Members, m)}
    /\ Len(new) = Len(old) + 1
       => new[Len(new)] = [Role |-> r, Members |-> <<m>>, Condition |-> FALSE]
    /\ Cardinality({i \in 1..Len(old) : new[i] # old[i]})
         + (Len(new) - Len(old)) <= 1

\* C23: patchCRMPolicy is an idempotent, additive patch.  For every policy
\* at hand and every member and role: the patched policy has an
\* unconditional binding of the role that lists the member; it is the given
\* policy with at most the one member or the one binding added, nothing
\* else removed or altered; the patch returns true exactly when the policy
\* changed; and patching the result again returns false and changes nothing.
C23_PatchIdempotentAdditive ==
    kind = "iam" =>
    \A pol \in PoliciesAtHand, m \in PatchMembers, r \in PatchRoles :
       LET once == patchCRMPolicy(pol, m, r)
           twice == patchCRMPolicy(once.policy, m, r)
       IN /\ Grants(once.policy, m, r)
          /\ AddsAtMostOne(pol, once.policy, m, r)
          /\ once.changed <=> once.policy # pol
          /\ ~twice.changed
          /\ twice.policy = once.policy

\* RenderGCE patched a policy with two bindings of the role, the member
\* being listed in the second only, and set it: the member was added to the
\* first binding and nothing else changed.
C23_Witness ==
    /\ kind = "iam"
    /\ \E p \in Procs :
          /\ RenderedOK(p)
          /\ ilog[p][Len(ilog[p])] = [op |-> "SetIamPolicy", ok |-> TRUE]
          /\ Len(local[p]) = 2
          /\ policies["p1"]
               = <<[local[p][1] EXCEPT !.Members = Append(@, MemberOf(ie[p]))],
                   local[p][2]>>

-----------------------------------------------------------------------------
(* Properties of the update path of AutoscalingGroup.RenderAWS.            *)

\* The step is an invocation of RenderAWS on an existing group
UpdateStep == kind = "asg" /\ pc = "render" /\ pc' # "render" /\ a # Unset

\* The outcome of operation op in the calls of log l: the outcomes of its
\* calls, in order
OutcomesOf(l, op) ==
    LET calls == SelectSeq(l, LAMBDA c : c.op = op)
    IN [i \in 1..Len(calls) |-> calls[i].ok]

\* C24: frame of an update.  When RenderAWS updates an existing group with
\* changes.MaxInstanceLifetime unset and UpdateAutoScalingGroup succeeds,
\* the maximum instance lifetime of the group in the cloud is after the
\* update what it was before.
C24_UpdateKeepsMaxInstanceLifetime ==
    [][(/\ UpdateStep
        /\ changes.MaxInstanceLifetime = Unset
        /\ OutcomesOf(log', "UpdateAutoScalingGroup") = <<TRUE>>)
       => cloud'.group[1].MaxInstanceLifetime
            = cloud.group[1].MaxInstanceLifetime]_vars


\* The calls the update path issues after UpdateAutoScalingGroup
AfterUpdateOps ==
    {"DeleteTags", "CreateOrUpdateTags", "DetachLoadBalancers",
     "AttachLoadBalancers", "AttachLoadBalancerTargetGroups"}

\* In the calls of log l every call of operation first comes before every
\* call of operation second
Precedes(l, first, second) ==
    \A i, j \in 1..Len(l) :
       (l[i].op = first /\ l[j].op = second) => i < j

\* C25: ordering of an update's provider calls.  In the calls RenderAWS
\* issues on the update path, a DeleteTags, CreateOrUpdateTags,
\* DetachLoadBalancers, AttachLoadBalancers or AttachLoadBalancerTargetGroups
\* call comes after an UpdateAutoScalingGroup call that succeeded,
\* DeleteTags comes before CreateOrUpdateTags and DetachLoadBalancers before
\* AttachLoadBalancers; a call that failed is the last call issued and
\* RenderAWS returns an error, and it returns success only when no call
\* failed.
C25_UpdateCallOrder ==
    [][UpdateStep
       => /\ \A i \in 1..Len(log') :
                log'[i].op \in AfterUpdateOps
                => \E j \in 1..(i - 1) :
                      log'[j] = [op |-> "UpdateAutoScalingGroup", ok |-> TRUE]
          /\ Precedes(log', "DeleteTags", "CreateOrUpdateTags")
          /\ Precedes(log', "DetachLoadBalancers", "AttachLoadBalancers")
          /\ \A i \in 1..Len(log') :
                ~log'[i].ok => (i = Len(log') /\ result' = "error")
          /\ result' = "ok" => \A i \in 1..Len(log') : log'[i].ok]_vars

\* An update deleted a stale tag after UpdateAutoScalingGroup, and the
\* CreateOrUpdateTags call that followed failed: RenderAWS returned the
\* error without issuing another call.
C25_Witness ==
    /\ kind = "asg" /\ a # Unset /\ renders > 0 /\ result = "error"
    /\ Len(log) >= 3
    /\ log[Len(log) - 2] = [op |-> "UpdateAutoScalingGroup", ok |-> TRUE]
    /\ log[Len(log) - 1] = [op |-> "DeleteTags", ok |-> TRUE]
    /\ log[Len(log)] = [op |-> "CreateOrUpdateTags", ok |-> FALSE]


\* The step is an update with changes.Tags set that returned success
TagUpdateOK == UpdateStep /\ changes.Tags # EmptyMap /\ result' = "ok"

\* The tags of the DeleteTags requests the update path builds
DeleteRequestKeys ==
    LET calls == SelectSeq(UpdateCalls(a[1], DesiredOf(e), changes),
                           LAMBDA c : c.op = "DeleteTags")
    IN UNION {DOMAIN calls[i].arg : i \in 1..Len(calls)}

\* Every actual tag key absent from desired is gone from the group, every
\* desired tag is on the group with its value, and no desired tag key is in
\* the delete request
TagsReconciled ==
    /\ \A k \in DOMAIN a[1].Tags \ DOMAIN e.Tags :
          k \notin DOMAIN cloud'.group[1].Tags
    /\ \A k \in DOMAIN e.Tags :
          /\ k \in DOMAIN cloud'.group[1].Tags
          /\ cloud'.group[1].Tags[k] = e.Tags[k]
    /\ DeleteRequestKeys \cap DOMAIN e.Tags = {}

\* C26: tag convergence.  After RenderAWS succeeds on the update path with
\* changes.Tags set, the tags of the group in the cloud, those with the
\* prefix aws:cloudformation: left aside, are exactly the desired Tags:
\* every actual tag key absent from desired is deleted, every desired tag is
\* created or updated, and no desired tag key is in the delete request.
C26_TagConvergence ==
    [][TagUpdateOK
       => /\ FindTags(cloud'.group[1]) = e.Tags
          /\ TagsReconciled]_vars

\* C26 as stated: after such an update the whole tag set of the group in
\* the cloud equals the desired Tags.
C26_TagSetEqualsDesired ==
    [][TagUpdateOK
       => /\ cloud'.group[1].Tags = e.Tags
          /\ TagsReconciled]_vars

\* An update succeeded on a group that carried a tag the task does not
\* want: the tag is gone and the group's tags are the desired ones.
C26_Witness ==
    /\ kind = "asg" /\ a # Unset /\ renders > 0 /\ result = "ok"
    /\ <<"", "old">> \in DOMAIN a[1].Tags
    /\ [op |-> "DeleteTags", ok |-> TRUE] \in Range(log)
    /\ [op |-> "CreateOrUpdateTags", ok |-> TRUE] \in Range(log)
    /\ cloud.group[1].Tags = e.Tags

-----------------------------------------------------------------------------
(* Properties of findAutoscalingGroup over the pages of a listing.         *)

\* Groups a listing may hold next to the one the cloud holds: a group of
\* the name that is being deleted, a group of another name, and a second
\* live group of the name
ListedGroups ==
    {[BaseGroup EXCEPT !.Status = Some("Delete in progress")],
     [BaseGroup EXCEPT !.AutoScalingGroupName = "asg2"],
     [BaseGroup EXCEPT !.MinSize = Some(3)]}

\* The ways the paginator may cut the listed groups l into pages
Paginations(l) ==
    {<<l>>} \cup {<<SubSeq(l, 1, k), SubSeq(l, k + 1, Len(l))>> : k \in 0..Len(l)}
    \cup (IF l = <<>> THEN {NoPages} ELSE {})

\* The listings DescribeAutoScalingGroups may return when the cloud holds
\* group: up to three of the possible groups, in any order, on any pages
Listings(group) ==
    LET pool == ListedGroups \cup Range(group)
        lists == UNION {Orders(S) : S \in {T \in SUBSET pool : Cardinality(T) <= 3}}
    IN UNION {Paginations(l) : l \in lists}

\* The places <<page, index>> of the listing that hold a group of the name
\* with a nil status
LivePlaces(pages, name) ==
    {pl \in UNION {{<<i, j>> : j \in 1..Len(pages[i])} : i \in 1..Len(pages)} :
        /\ pages[pl[1]][pl[2]].Status = Unset
        /\ pages[pl[1]][pl[2]].AutoScalingGroupName = name}

\* C27: findAutoscalingGroup over all result pages.  For every listing that
\* was read without an error: when no listed group has the requested name
\* and a nil status it returns nil and no error; when exactly one has, it
\* returns that group; when more than one has, it returns an error and no
\* group; a group with a non-nil status or another name is never returned.
C27_FindOverPages ==
    (kind = "asg" /\ pc = "find") =>
    \A pages \in Listings(cloud.group) :
       LET name == ValueOf(e.Name, "")
           live == LivePlaces(pages, name)
           r == findAutoscalingGroup([err |-> FALSE, pages |-> pages], name)
       IN /\ live = {} => (r.g = Unset /\ ~r.err)
          /\ Cardinality(live) = 1
             => /\ ~r.err
                /\ \A pl \in live : r.g = Some(pages[pl[1]][pl[2]])
          /\ Cardinality(live) > 1 => (r.err /\ r.g = Unset)
          /\ r.g # Unset => /\ r.g[1].Status = Unset
                            /\ r.g[1].AutoScalingGroupName = name

\* Find is about to run on a cloud that holds a live group of the task's
\* name, and some listing puts a group that is being deleted on the first
\* page and that group with a second live group of the name on the second:
\* findAutoscalingGroup answers it with the error for multiple groups.
C27_Witness ==
    /\ kind = "asg" /\ pc = "find"
    /\ cloud.group # Unset /\ cloud.group[1].Status = Unset
    /\ \E pages \in Listings(cloud.group) :
          /\ Len(pages) = 2 /\ Len(pages[1]) = 1 /\ Len(pages[2]) = 2
          /\ pages[1][1].Status # Unset
          /\ cloud.group[1] \in Range(pages[2])
          /\ Cardinality(LivePlaces(pages, ValueOf(e.Name, ""))) = 2
          /\ findAutoscalingGroup([err |-> FALSE, pages |-> pages],
                                  ValueOf(e.Name, "")).multiple

-----------------------------------------------------------------------------
(* Properties of the chunked target-group attachment.                      *)

RECURSIVE Concat(_)
\* The concatenation of the sequences of ss
Concat(ss) == IF ss = <<>> THEN <<>> ELSE Head(ss) \o Concat(Tail(ss))

\* The TargetGroupARNs of the attach requests the update path builds for
\* the desired task d, the actual state act and the ChangeSet ch, in order
AttachRequests(act, d, ch) ==
    LET calls == SelectSeq(UpdateCalls(act, d, ch),
                           LAMBDA c : c.op = "AttachLoadBalancerTargetGroups")
    IN [i \in 1..Len(calls) |-> calls[i].arg]

\* C28: chunked target-group attachment.  For every list of desired
\* target-group ARNs up to MaxTargetGroups, with changes.TargetGroups set,
\* the attach requests the update path builds are non-empty chunks of at
\* most attachLoadBalancerTargetGroupsMaxItems ARNs whose concatenation, in
\* the order of the requests, is the list, so that each desired ARN is in
\* exactly one request; the empty list yields no request.  The same holds
\* of the requests of the task at hand.
C28_ChunkedAttachment ==
    (kind = "asg" /\ pc = "render" /\ a # Unset) =>
    \A n \in {-1} \cup 0..MaxTargetGroups :
       LET list == IF n = -1 THEN e.TargetGroups ELSE [i \in 1..n |-> i]
           d == [DesiredOf(e) EXCEPT !.TargetGroups = list]
           ch == IF n = -1 THEN changes
                 ELSE [changes EXCEPT !.TargetGroups = list]
           reqs == AttachRequests(a[1], d, ch)
       IN /\ \A i \in 1..Len(reqs) :
                /\ reqs[i] # <<>>
                /\ Len(reqs[i]) <= attachLoadBalancerTargetGroupsMaxItems
          /\ ch.TargetGroups # <<>> => Concat(reqs) = list
          /\ list = <<>> => reqs = <<>>

\* An update attached eleven target groups to a group that had none: it
\* issued two AttachLoadBalancerTargetGroups calls, and the group has the
\* eleven.
C28_Witness ==
    /\ kind = "asg" /\ a # Unset /\ renders > 0 /\ result = "ok"
    /\ a[1].TargetGroups = <<>>
    /\ OutcomesOf(log, "AttachLoadBalancerTargetGroups") = <<TRUE, TRUE>>
    /\ cloud.group[1].TargetGroupARNs = e.TargetGroups
    /\ Len(e.TargetGroups) = attachLoadBalancerTargetGroupsMaxItems + 1

====
